---- MODULE Spec2Model ----
(***************************************************************************)
(* rustlox front end: the Scanner of src/scanner.rs (source text to        *)
(* tokens), the RecursiveDescentParser of src/parser/recursive_descent.rs  *)
(* (tokens to a Node tree), and the driver binary of src/main.rs with the  *)
(* Scanner and parser embedded in it.                                      *)
(*                                                                         *)
(* A source text is a sequence of characters, each a one-character string. *)
(* Rust indexes `characters` from 0; sequences here are indexed from 1, so *)
(* characters[i] of the code is At(characters, i) == characters[i + 1].    *)
(***************************************************************************)
EXTENDS Integers, Sequences, FiniteSets, TLC

VARIABLES
    source,        \* the source_code argument of the scan call in progress
    cursor,        \* Scanner.cursor
    lexeme_start,  \* Scanner.lexeme_start
    line_number,   \* Scanner.line_number
    tokens,        \* Scanner.tokens
    pc,            \* position of the scan call: idle, scanning, ok, err, panic
    result,        \* value the last scan call returned
    calls,         \* number of scan calls made on this Scanner instance
    p_tokens,      \* RecursiveDescentParser.tokens
    p_cursor,      \* RecursiveDescentParser.cursor
    p_result,      \* value the last parse call returned
    p_prev,        \* tokens and result of the parse call before the last one
    p_calls,       \* number of parse calls made on this parser instance
    p_pc,          \* position of the parser: idle, done, panic
    had_error,     \* Interpreter.had_error
    d_pc,          \* position of main: start, prompt, done, failed, usage, panic
    d_read,        \* what the last read_line of run_prompt gave: None, Line, Eof, Err
    d_run,         \* record of the last Interpreter::run call
    d_stderr,      \* the lines written to the diagnostic stream
    d_reads        \* number of lines run_prompt has read

scan_vars == <<source, cursor, lexeme_start, line_number, tokens, pc,
               result, calls>>
parse_vars == <<p_tokens, p_cursor, p_result, p_prev, p_calls, p_pc>>
driver_vars == <<had_error, d_pc, d_read, d_run, d_stderr, d_reads>>
vars == <<scan_vars, parse_vars, driver_vars>>

-----------------------------------------------------------------------------
(* Bounds *)

\* longest source text enumerated exhaustively over Alphabet
MaxLen == 3
\* scan calls made on one Scanner instance
MaxCalls == 2
\* longest token sequence enumerated exhaustively over ParseKinds
MaxTokens == 4
\* parse calls made on one parser instance
MaxParseCalls == 2
\* longest line, without its line end, enumerated exhaustively over
\* LineAlphabet
MaxLineLen == 2
\* lines read by one run_prompt call
MaxLines == 2

-----------------------------------------------------------------------------
(* Characters *)

Quote == "\""
NL == "\n"
NonAscii == "é"

Digits == {"0", "1", "2", "3", "4", "5", "6", "7", "8", "9"}
AsciiLetters ==
    {"a", "b", "c", "d", "e", "f", "g", "h", "i", "j", "k", "l", "m",
     "n", "o", "p", "q", "r", "s", "t", "u", "v", "w", "x", "y", "z"}

\* char::is_digit(10)
is_digit(c) == c \in Digits
\* char::is_alphabetic
is_alphabetic(c) == c \in AsciiLetters \cup {NonAscii}
\* char::is_alphanumeric
is_alphanumeric(c) == is_alphabetic(c) \/ c \in Digits

\* char::len_utf8: the bytes a character takes in the &str
len_utf8(c) == IF c = NonAscii THEN 2 ELSE 1

At(characters, i) == characters[i + 1]

RECURSIVE ByteOffset(_, _)
\* byte offset in the &str of the character with char index i (0-based);
\* ByteOffset(s, Len(s)) is the length of the &str in bytes
ByteOffset(s, i) ==
    IF i = 0 THEN 0 ELSE ByteOffset(s, i - 1) + len_utf8(s[i])

is_char_boundary(s, b) == \E i \in 0..Len(s) : ByteOffset(s, i) = b

\* &source_code[from..to]: a slice by BYTE offsets. Panics when from > to,
\* when to is past the end, or when either is inside a character.
Slice(s, from, to) ==
    IF from > to \/ ~is_char_boundary(s, from) \/ ~is_char_boundary(s, to)
    THEN [ok |-> FALSE, text |-> <<>>]
    ELSE LET ks == {k \in 1..Len(s) :
                      from <= ByteOffset(s, k - 1) /\ ByteOffset(s, k - 1) < to}
         IN [ok |-> TRUE,
             text |-> IF ks = {} THEN <<>>
                      ELSE SubSeq(s, CHOOSE k \in ks : \A j \in ks : k <= j,
                                     CHOOSE k \in ks : \A j \in ks : j <= k)]

-----------------------------------------------------------------------------
(* Tokens *)

\* token::Token / scanner::Token::new
Token(token_type, lexeme, line) ==
    [token_type |-> token_type, lexeme |-> lexeme, line_number |-> line]

\* the arms of TokenType::from_str: the reserved words, as character
\* sequences, and their token types
ReservedWords ==
    {[word |-> <<"n", "i", "l">>, token_type |-> "Nil"],
     [word |-> <<"t", "r", "u", "e">>, token_type |-> "True"],
     [word |-> <<"f", "a", "l", "s", "e">>, token_type |-> "False"],
     [word |-> <<"a", "n", "d">>, token_type |-> "And"],
     [word |-> <<"o", "r">>, token_type |-> "Or"],
     [word |-> <<"i", "f">>, token_type |-> "If"],
     [word |-> <<"e", "l", "s", "e">>, token_type |-> "Else"],
     [word |-> <<"f", "o", "r">>, token_type |-> "For"],
     [word |-> <<"w", "h", "i", "l", "e">>, token_type |-> "While"],
     [word |-> <<"v", "a", "r">>, token_type |-> "Var"],
     [word |-> <<"f", "u", "n">>, token_type |-> "Fun"],
     [word |-> <<"r", "e", "t", "u", "r", "n">>, token_type |-> "Return"],
     [word |-> <<"c", "l", "a", "s", "s">>, token_type |-> "Class"],
     [word |-> <<"t", "h", "i", "s">>, token_type |-> "This"],
     [word |-> <<"s", "u", "p", "e", "r">>, token_type |-> "Super"],
     [word |-> <<"p", "r", "i", "n", "t">>, token_type |-> "Print"]}

\* TokenType::from_str
from_str(identifier_literal) ==
    IF \E k \in ReservedWords : k.word = identifier_literal
    THEN (CHOOSE k \in ReservedWords : k.word = identifier_literal).token_type
    ELSE "Identifier"

\* the one-character arms of Scanner::scan's match
SingleCharTokens ==
    [c \in {"(", ")", "{", "}", ";", ",", ".", "+", "-", "*"} |->
        CASE c = "(" -> "LeftParen"
          [] c = ")" -> "RightParen"
          [] c = "{" -> "LeftBrace"
          [] c = "}" -> "RightBrace"
          [] c = ";" -> "Semicolon"
          [] c = "," -> "Comma"
          [] c = "." -> "Dot"
          [] c = "+" -> "Plus"
          [] c = "-" -> "Minus"
          [] c = "*" -> "Star"]

\* the arms of Scanner::scan that look one character ahead for `=`
OperatorTokens ==
    [c \in {"!", "=", ">", "<"} |->
        CASE c = "!" -> [one |-> "Bang", two |-> "BangEqual"]
          [] c = "=" -> [one |-> "Equal", two |-> "EqualEqual"]
          [] c = ">" -> [one |-> "Greater", two |-> "GreaterEqual"]
          [] c = "<" -> [one |-> "Less", two |-> "LessEqual"]]

-----------------------------------------------------------------------------
(* Scanner: the fields of the struct as a record                           *)
(*   [cursor, lexeme_start, line_number, tokens, st, error]                *)
(* st is "run" while the call goes on, "err" once it returned Err(error),  *)
(* "panic" once it aborted (index out of bounds, slice off a boundary).    *)

NoError == [line_number |-> 0, message |-> <<>>]

\* scanner::Error::new
Error(line, message) == [line_number |-> line, message |-> message]

\* Scanner::new
NewScanner ==
    [cursor |-> 0, lexeme_start |-> 0, line_number |-> 1, tokens |-> <<>>,
     st |-> "run", error |-> NoError]

Panic(s) == [s EXCEPT !.st = "panic"]

\* Scanner::add_token
add_token(s, token_type, lexeme) ==
    [s EXCEPT !.tokens = Append(@, Token(token_type, lexeme, s.line_number)),
              !.cursor = s.cursor + 1,
              !.lexeme_start = s.cursor + 1]

RECURSIVE line_comment(_, _)
\* the 'line_comment loop
line_comment(characters, s) ==
    LET c == s.cursor + 1
    IN IF c >= Len(characters) \/ At(characters, c) = NL
       THEN [s EXCEPT !.cursor = c + 1,
                      !.lexeme_start = c + 1,
                      !.line_number = s.line_number + 1]
       ELSE line_comment(characters, [s EXCEPT !.cursor = c])

\* the '/' arm
slash(characters, s) ==
    IF s.cursor + 1 < Len(characters) /\ At(characters, s.cursor + 1) = "/"
    THEN line_comment(characters, s)
    ELSE add_token(s, "Slash", <<"/">>)

\* the '!', '=', '>' and '<' arms
operator(characters, s) ==
    LET c == At(characters, s.cursor)
    IN IF s.cursor + 1 < Len(characters) /\ At(characters, s.cursor + 1) = "="
       THEN add_token([s EXCEPT !.cursor = s.cursor + 1],
                      OperatorTokens[c].two, <<c, "=">>)
       ELSE add_token(s, OperatorTokens[c].one, <<c>>)

RECURSIVE string_literal(_, _)
\* the 'string_literal loop: characters[self.cursor] is read before the
\* bounds test of the second `if`
string_literal(characters, s) ==
    LET c == s.cursor + 1
        s1 == [s EXCEPT !.cursor = c]
    IN IF c >= Len(characters)
       THEN Panic(s1)
       ELSE IF At(characters, c) = Quote
       THEN LET lit == Slice(characters, s.lexeme_start + 1, c)
            IN IF lit.ok THEN add_token(s1, "String", lit.text) ELSE Panic(s1)
       ELSE IF At(characters, c) = NL
       THEN [s1 EXCEPT !.st = "err",
                       !.error = Error(s.line_number, <<"Unterminated string">>)]
       ELSE string_literal(characters, s1)

\* the whitespace arm
whitespace(s) ==
    [s EXCEPT !.cursor = s.cursor + 1, !.lexeme_start = s.cursor + 1]

\* the '\n' arm
newline(s) ==
    [s EXCEPT !.cursor = s.cursor + 1,
              !.lexeme_start = s.cursor + 1,
              !.line_number = s.line_number + 1]

RECURSIVE number_decimal_loop(_, _)
\* the 'number_decimal_loop: entered on a '.', which it steps over at once
number_decimal_loop(characters, c) ==
    IF c + 1 < Len(characters) /\ is_digit(At(characters, c + 1))
    THEN number_decimal_loop(characters, c + 1)
    ELSE c + 1

RECURSIVE number_literal_loop(_, _)
\* the 'number_literal loop; the value is the cursor when the loop breaks
number_literal_loop(characters, c) ==
    IF c + 1 < Len(characters) /\ is_digit(At(characters, c + 1))
    THEN number_literal_loop(characters, c + 1)
    ELSE IF c + 1 < Len(characters) /\ At(characters, c + 1) = "."
    THEN number_decimal_loop(characters, c + 1)
    ELSE c + 1

\* the digit branch of the default arm
number_literal(characters, s) ==
    LET c == number_literal_loop(characters, s.cursor) - 1
        lit == Slice(characters, s.lexeme_start, c + 1)
        s1 == [s EXCEPT !.cursor = c]
    IN IF lit.ok THEN add_token(s1, "Number", lit.text) ELSE Panic(s1)

RECURSIVE identifier_loop(_, _)
\* the 'identifier_literal loop; the value is the cursor when it ends
identifier_loop(characters, c) ==
    IF c + 1 < Len(characters)
       /\ (is_alphanumeric(At(characters, c + 1)) \/ At(characters, c + 1) = "_")
    THEN identifier_loop(characters, c + 1)
    ELSE c + 1

\* the alphabetic branch of the default arm. add_token runs with the cursor
\* already past the run and adds one more.
identifier_literal(characters, s) ==
    LET c == identifier_loop(characters, s.cursor)
        lit == Slice(characters, s.lexeme_start, c)
        s1 == [s EXCEPT !.cursor = c]
    IN IF lit.ok THEN add_token(s1, from_str(lit.text), lit.text) ELSE Panic(s1)

\* the default arm
default_arm(characters, s) ==
    LET c == At(characters, s.cursor)
    IN IF is_digit(c) THEN number_literal(characters, s)
       ELSE IF is_alphabetic(c) \/ c = "_" THEN identifier_literal(characters, s)
       ELSE [s EXCEPT !.st = "err",
                      !.error = Error(s.line_number, <<"Unexpected character", c>>)]

\* one iteration of the 'scan loop: the match on characters[self.cursor]
scan_iteration(characters, s) ==
    LET c == At(characters, s.cursor)
    IN CASE c \in DOMAIN SingleCharTokens -> add_token(s, SingleCharTokens[c], <<c>>)
         [] c = "/" -> slash(characters, s)
         [] c \in DOMAIN OperatorTokens -> operator(characters, s)
         [] c = Quote -> string_literal(characters, s)
         [] c \in {" ", "\r", "\t"} -> whitespace(s)
         [] c = NL -> newline(s)
         [] OTHER -> default_arm(characters, s)

\* what a scan call hands back
NoResult == [kind |-> "None", tokens |-> <<>>, error |-> NoError]
Ok(toks) == [kind |-> "Ok", tokens |-> toks, error |-> NoError]
Err(e) == [kind |-> "Err", tokens |-> <<>>, error |-> e]
Aborted == [kind |-> "Panic", tokens |-> <<>>, error |-> NoError]

RECURSIVE scan_loop(_, _)
\* the 'scan loop run to its end from scanner state s
scan_loop(characters, s) ==
    IF s.st # "run" THEN s
    ELSE IF s.cursor < Len(characters)
    THEN scan_loop(characters, scan_iteration(characters, s))
    ELSE s

\* Scanner::scan on a Scanner in state s0: the value returned
scan(s0, source_code) ==
    LET s == scan_loop(source_code, [s0 EXCEPT !.tokens = <<>>])
    IN CASE s.st = "run" -> Ok(s.tokens)
         [] s.st = "err" -> Err(s.error)
         [] OTHER -> Aborted

-----------------------------------------------------------------------------
(* AST: ast::Node and ast::Literal *)

Expression(n) == [type |-> "Expression", child |-> n]
Series(l, r) == [type |-> "Series", left |-> l, right |-> r]
Equality(op, l, r) == [type |-> "Equality", operator |-> op, left |-> l, right |-> r]
Comparison(op, l, r) == [type |-> "Comparison", operator |-> op, left |-> l, right |-> r]
Sum(op, l, r) == [type |-> "Sum", operator |-> op, left |-> l, right |-> r]
Product(op, l, r) == [type |-> "Product", operator |-> op, left |-> l, right |-> r]
Unary(op, n) == [type |-> "Unary", operator |-> op, operand |-> n]
Primary(lit) == [type |-> "Primary", literal |-> lit]

LiteralNil == [type |-> "Nil"]
LiteralTrue == [type |-> "True"]
LiteralFalse == [type |-> "False"]
LiteralString(text) == [type |-> "String", value |-> text]
LiteralNumber(number) == [type |-> "Number", value |-> number]

NoNode == [type |-> "None"]

-----------------------------------------------------------------------------
(* str::parse::<f64>: the decimal grammar of the standard library,         *)
(*   Number ::= [sign] ( Digit+ | Digit+ '.' Digit* | Digit* '.' Digit+ )  *)
(* The value is kept exact as <<n, k>>, standing for n / 10^k with no      *)
(* trailing zero in the fraction; binary rounding is left out.             *)

DigitValue(c) ==
    CASE c = "0" -> 0 [] c = "1" -> 1 [] c = "2" -> 2 [] c = "3" -> 3
      [] c = "4" -> 4 [] c = "5" -> 5 [] c = "6" -> 6 [] c = "7" -> 7
      [] c = "8" -> 8 [] c = "9" -> 9

RECURSIVE DigitsValue(_)
DigitsValue(w) ==
    IF w = <<>> THEN 0
    ELSE 10 * DigitsValue(SubSeq(w, 1, Len(w) - 1)) + DigitValue(w[Len(w)])

RECURSIVE Normalize(_, _)
Normalize(n, k) ==
    IF k > 0 /\ n % 10 = 0 THEN Normalize(n \div 10, k - 1) ELSE <<n, k>>

parse_f64(lexeme) ==
    LET signed == Len(lexeme) >= 1 /\ lexeme[1] \in {"+", "-"}
        body == IF signed THEN Tail(lexeme) ELSE lexeme
        dots == {i \in 1..Len(body) : body[i] = "."}
        wellformed ==
            /\ \A i \in 1..Len(body) : body[i] \in Digits \cup {"."}
            /\ Cardinality(dots) <= 1
            /\ \E i \in 1..Len(body) : body[i] \in Digits
        isDigit(c) == c \in Digits
        k == IF dots = {} THEN 0 ELSE Len(body) - (CHOOSE i \in dots : TRUE)
        n == DigitsValue(SelectSeq(body, isDigit))
        v == Normalize(n, k)
    IN IF wellformed
       THEN [ok |-> TRUE,
             value |-> IF signed /\ lexeme[1] = "-" THEN <<0 - v[1], v[2]>> ELSE v]
       ELSE [ok |-> FALSE, value |-> <<0, 0>>]

-----------------------------------------------------------------------------
(* RecursiveDescentParser: each rule takes the token slice and the cursor  *)
(* and gives [st, node, cursor, error]: st is "ok" for Ok(node), "err" for *)
(* Err(error), "panic" for an index past the end of the slice. The cursor  *)
(* is the field's value when the rule returns.                             *)

POk(node, c) == [st |-> "ok", node |-> node, cursor |-> c, error |-> NoError]
PErr(e, c) == [st |-> "err", node |-> NoNode, cursor |-> c, error |-> e]
PPanic(c) == [st |-> "panic", node |-> NoNode, cursor |-> c, error |-> NoError]

\* self.tokens[i]
TokenAt(ts, i) == ts[i + 1]

\* `let r = x; F(r)`: x is evaluated once and F sees its value
Let(x, F(_)) == CHOOSE y \in {F(v) : v \in {x}} : TRUE

UnexpectedToken(tok) == Error(tok.line_number, <<"Unexpected token", tok.lexeme>>)

RECURSIVE parse_expression(_, _)
RECURSIVE parse_series(_, _)
RECURSIVE series_loop(_, _)
RECURSIVE parse_equality(_, _)
RECURSIVE equality_loop(_, _)
RECURSIVE parse_comparison(_, _)
RECURSIVE comparison_loop(_, _)
RECURSIVE parse_sum(_, _)
RECURSIVE sum_loop(_, _)
RECURSIVE parse_product(_, _)
RECURSIVE product_loop(_, _)
RECURSIVE parse_unary(_, _)
RECURSIVE parse_primary(_, _)
RECURSIVE grouping(_, _)

\* parse_expression without the Expression node around the series
parse_expression_bare(ts, c) == parse_series(ts, c)

\* RecursiveDescentParser::parse_expression
parse_expression(ts, c) ==
    Let(parse_series(ts, c),
        LAMBDA r : IF r.st = "ok" THEN POk(Expression(r.node), r.cursor) ELSE r)

\* the loop of parse_series keeping only the operand after the last `,`
series_loop_dropping(ts, r) ==
    IF r.cursor < Len(ts) /\ TokenAt(ts, r.cursor).token_type = "Comma"
    THEN Let(parse_equality(ts, r.cursor + 1),
             LAMBDA rhs : IF rhs.st = "ok" THEN series_loop(ts, rhs) ELSE rhs)
    ELSE r

\* the while loop of parse_series, the running node in r
series_loop(ts, r) ==
    IF r.cursor < Len(ts) /\ TokenAt(ts, r.cursor).token_type = "Comma"
    THEN Let(parse_equality(ts, r.cursor + 1),
             LAMBDA rhs : IF rhs.st = "ok"
                          THEN series_loop(ts, POk(Series(r.node, rhs.node), rhs.cursor))
                          ELSE rhs)
    ELSE r

\* RecursiveDescentParser::parse_series
parse_series(ts, c) ==
    Let(parse_equality(ts, c), LAMBDA r : IF r.st = "ok" THEN series_loop(ts, r) ELSE r)

EqualityOperators == [EqualEqual |-> "Equal", BangEqual |-> "NotEqual"]

\* the loop of parse_equality taking a whole equality as its right operand
equality_loop_right(ts, r) ==
    IF r.cursor < Len(ts) /\ TokenAt(ts, r.cursor).token_type \in DOMAIN EqualityOperators
    THEN Let(parse_equality(ts, r.cursor + 1),
             LAMBDA rhs :
                IF rhs.st = "ok"
                THEN equality_loop(ts, POk(Equality(EqualityOperators[TokenAt(ts, r.cursor).token_type],
                                           r.node, rhs.node), rhs.cursor))
                ELSE rhs)
    ELSE r

\* the while loop of parse_equality
equality_loop(ts, r) ==
    IF r.cursor < Len(ts) /\ TokenAt(ts, r.cursor).token_type \in DOMAIN EqualityOperators
    THEN Let(parse_comparison(ts, r.cursor + 1),
             LAMBDA rhs :
                IF rhs.st = "ok"
                THEN equality_loop(ts, POk(Equality(EqualityOperators[TokenAt(ts, r.cursor).token_type],
                                         r.node, rhs.node), rhs.cursor))
                ELSE rhs)
    ELSE r

\* RecursiveDescentParser::parse_equality
parse_equality(ts, c) ==
    Let(parse_comparison(ts, c), LAMBDA r : IF r.st = "ok" THEN equality_loop(ts, r) ELSE r)

ComparisonOperators ==
    [Greater |-> "Greater", GreaterEqual |-> "GreaterEqual",
     Less |-> "Less", LessEqual |-> "LessEqual"]

\* the while loop of parse_comparison
comparison_loop(ts, r) ==
    IF r.cursor < Len(ts) /\ TokenAt(ts, r.cursor).token_type \in DOMAIN ComparisonOperators
    THEN Let(parse_sum(ts, r.cursor + 1),
             LAMBDA rhs :
                IF rhs.st = "ok"
                THEN comparison_loop(ts, POk(Comparison(ComparisonOperators[TokenAt(ts, r.cursor).token_type],
                                         r.node, rhs.node), rhs.cursor))
                ELSE rhs)
    ELSE r

\* RecursiveDescentParser::parse_comparison
parse_comparison(ts, c) ==
    Let(parse_sum(ts, c), LAMBDA r : IF r.st = "ok" THEN comparison_loop(ts, r) ELSE r)

SumOperators == [Plus |-> "Plus", Minus |-> "Minus"]

\* the loop of parse_sum taking a whole sum as its right operand
sum_loop_right(ts, r) ==
    IF r.cursor < Len(ts) /\ TokenAt(ts, r.cursor).token_type \in DOMAIN SumOperators
    THEN Let(parse_sum(ts, r.cursor + 1),
             LAMBDA rhs :
                IF rhs.st = "ok"
                THEN sum_loop(ts, POk(Sum(SumOperators[TokenAt(ts, r.cursor).token_type],
                                      r.node, rhs.node), rhs.cursor))
                ELSE rhs)
    ELSE r

\* the while loop of parse_sum
sum_loop(ts, r) ==
    IF r.cursor < Len(ts) /\ TokenAt(ts, r.cursor).token_type \in DOMAIN SumOperators
    THEN Let(parse_product(ts, r.cursor + 1),
             LAMBDA rhs :
                IF rhs.st = "ok"
                THEN sum_loop(ts, POk(Sum(SumOperators[TokenAt(ts, r.cursor).token_type],
                                         r.node, rhs.node), rhs.cursor))
                ELSE rhs)
    ELSE r

\* RecursiveDescentParser::parse_sum
parse_sum(ts, c) ==
    Let(parse_product(ts, c), LAMBDA r : IF r.st = "ok" THEN sum_loop(ts, r) ELSE r)

ProductOperators == [Star |-> "Star", Slash |-> "Slash"]

\* the loop of parse_product taking a whole product as its right operand
product_loop_right(ts, r) ==
    IF r.cursor < Len(ts) /\ TokenAt(ts, r.cursor).token_type \in DOMAIN ProductOperators
    THEN Let(parse_product(ts, r.cursor + 1),
             LAMBDA rhs :
                IF rhs.st = "ok"
                THEN product_loop(ts, POk(Product(ProductOperators[TokenAt(ts, r.cursor).token_type],
                                          r.node, rhs.node), rhs.cursor))
                ELSE rhs)
    ELSE r

\* the while loop of parse_product
product_loop(ts, r) ==
    IF r.cursor < Len(ts) /\ TokenAt(ts, r.cursor).token_type \in DOMAIN ProductOperators
    THEN Let(parse_unary(ts, r.cursor + 1),
             LAMBDA rhs :
                IF rhs.st = "ok"
                THEN product_loop(ts, POk(Product(ProductOperators[TokenAt(ts, r.cursor).token_type],
                                         r.node, rhs.node), rhs.cursor))
                ELSE rhs)
    ELSE r

\* RecursiveDescentParser::parse_product
parse_product(ts, c) ==
    Let(parse_unary(ts, c), LAMBDA r : IF r.st = "ok" THEN product_loop(ts, r) ELSE r)

UnaryOperators == [Bang |-> "Bang", Minus |-> "Minus"]

\* parse_unary taking a whole product as the operand of a prefix operator
parse_unary_wide(ts, c) ==
    IF c >= Len(ts) THEN PPanic(c)
    ELSE IF TokenAt(ts, c).token_type \in DOMAIN UnaryOperators
    THEN Let(parse_product(ts, c + 1),
             LAMBDA r :
                IF r.st = "ok"
                THEN POk(Unary(UnaryOperators[TokenAt(ts, c).token_type], r.node), r.cursor)
                ELSE r)
    ELSE parse_primary(ts, c)

\* RecursiveDescentParser::parse_unary: self.tokens[self.cursor] is read
\* with no test of the cursor against the length
parse_unary(ts, c) ==
    IF c >= Len(ts) THEN PPanic(c)
    ELSE IF TokenAt(ts, c).token_type \in DOMAIN UnaryOperators
    THEN Let(parse_unary(ts, c + 1),
             LAMBDA r :
                IF r.st = "ok"
                THEN POk(Unary(UnaryOperators[TokenAt(ts, c).token_type], r.node), r.cursor)
                ELSE r)
    ELSE parse_primary(ts, c)

\* the Number arm taking any lexeme for a number
number_lenient(ts, c) == POk(Primary(LiteralNumber(parse_f64(TokenAt(ts, c).lexeme).value)), c + 1)

\* the TokenType::Number arm of parse_primary
number(ts, c) ==
    LET parsed == parse_f64(TokenAt(ts, c).lexeme)
    IN IF parsed.ok
       THEN POk(Primary(LiteralNumber(parsed.value)), c + 1)
       ELSE PErr(Error(TokenAt(ts, c).line_number,
                       <<"Failed to parse number", TokenAt(ts, c).lexeme>>), c)

\* the LeftParen arm handing back the inner node without its Expression
grouping_transparent(ts, c) ==
    Let(parse_expression(ts, c + 1),
        LAMBDA r :
           IF r.st # "ok" THEN r
           ELSE IF r.cursor < Len(ts) /\ TokenAt(ts, r.cursor).token_type = "RightParen"
           THEN POk(r.node.child, r.cursor + 1)
           ELSE PErr(UnexpectedToken(TokenAt(ts, r.cursor - 1)), r.cursor))

\* the LeftParen arm citing the line of the `(` when the `)` is missing
grouping_open(ts, c) ==
    Let(parse_expression(ts, c + 1),
        LAMBDA r :
           IF r.st # "ok" THEN r
           ELSE IF r.cursor < Len(ts) /\ TokenAt(ts, r.cursor).token_type = "RightParen"
           THEN POk(r.node, r.cursor + 1)
           ELSE PErr(UnexpectedToken(TokenAt(ts, c)), r.cursor))

\* the TokenType::LeftParen arm of parse_primary
grouping(ts, c) ==
    Let(parse_expression(ts, c + 1),
        LAMBDA r :
           IF r.st # "ok" THEN r
           ELSE IF r.cursor < Len(ts) /\ TokenAt(ts, r.cursor).token_type = "RightParen"
           THEN POk(r.node, r.cursor + 1)
           ELSE PErr(UnexpectedToken(TokenAt(ts, r.cursor - 1)), r.cursor))

\* parse_primary stepping over the token it rejects
parse_primary_skipping(ts, c) ==
    IF c >= Len(ts) THEN PPanic(c)
    ELSE LET tt == TokenAt(ts, c).token_type
         IN CASE tt = "Nil" -> POk(Primary(LiteralNil), c + 1)
              [] tt = "True" -> POk(Primary(LiteralTrue), c + 1)
              [] tt = "False" -> POk(Primary(LiteralFalse), c + 1)
              [] tt = "Number" -> number(ts, c)
              [] tt = "String" -> POk(Primary(LiteralString(TokenAt(ts, c).lexeme)), c + 1)
              [] tt = "LeftParen" -> grouping(ts, c)
              [] OTHER -> PErr(UnexpectedToken(TokenAt(ts, c)), c + 1)

\* RecursiveDescentParser::parse_primary
parse_primary(ts, c) ==
    IF c >= Len(ts) THEN PPanic(c)
    ELSE LET tt == TokenAt(ts, c).token_type
         IN CASE tt = "Nil" -> POk(Primary(LiteralNil), c + 1)
              [] tt = "True" -> POk(Primary(LiteralTrue), c + 1)
              [] tt = "False" -> POk(Primary(LiteralFalse), c + 1)
              [] tt = "Number" -> number(ts, c)
              [] tt = "String" -> POk(Primary(LiteralString(TokenAt(ts, c).lexeme)), c + 1)
              [] tt = "LeftParen" -> grouping(ts, c)
              [] OTHER -> PErr(UnexpectedToken(TokenAt(ts, c)), c)

\* RecursiveDescentParser::new: the fields of the struct
NewParser == [cursor |-> 0, tokens |-> <<>>]

\* parse handing back the expression whatever tokens follow it
parse_prefix(self, tokens_) == parse_expression(tokens_, 0)

\* the rest of Parse::parse, once the fields are set
parse_rest(self) ==
    Let(parse_expression(self.tokens, self.cursor),
        LAMBDA r :
           IF r.st = "ok" /\ r.cursor < Len(self.tokens)
           THEN PErr(Error(TokenAt(self.tokens, r.cursor).line_number,
                           <<"Unexpected token bruh",
                             TokenAt(self.tokens, r.cursor).lexeme>>),
                     r.cursor)
           ELSE r)

\* parse going on from the cursor the call before left
parse_stale(self, tokens_) == parse_rest([self EXCEPT !.tokens = tokens_])

\* Parse::parse for RecursiveDescentParser on a parser with the fields
\* self: `self.tokens = tokens; self.cursor = 0;` and then the rest
parse(self, tokens_) ==
    parse_rest([self EXCEPT !.tokens = tokens_, !.cursor = 0])

-----------------------------------------------------------------------------
(* Source texts *)

Alphabet == {"1", ".", Quote, NL, " ", "/", "!", "=", ">", "a", NonAscii, "@"}

RECURSIVE SeqsUpTo(_, _)
\* all sequences over S of length at most n
SeqsUpTo(S, n) ==
    IF n = 0 THEN {<<>>}
    ELSE LET shorter == SeqsUpTo(S, n - 1)
         IN shorter \cup {Append(w, c) : w \in {v \in shorter : Len(v) = n - 1}, c \in S}

\* the inputs of tests::lexemes_are_scanned_successfully
TestLexemes ==
    {<<c>> : c \in DOMAIN SingleCharTokens \cup DOMAIN OperatorTokens \cup {"/"}}
    \cup {<<c, "=">> : c \in DOMAIN OperatorTokens}
    \cup {k.word : k \in ReservedWords}
    \cup {<<Quote, "s", "u", "s", "h", "i", Quote>>,
          <<"1", "2", "3", ".", "4", "5", "6">>,
          <<"m", "y", "_", "v", "a", "r", "i", "a", "b", "l", "e">>}

\* further texts named by the specification's testable properties
Examples ==
    {<<"1", NL, "2">>, <<Quote, "a", "b", "c">>, <<"3", ".">>,
     <<"n", "i", "l", "x">>, <<"c", "l", "a", "s", "s", "_">>,
     <<"/", "/", "a", NL, "1">>, <<"a", "!", "=", "b">>,
     <<"1", "+", "2", "*", "3">>, <<"(", "n", "i", "l", ")">>,
     <<"1", ".", "2", ".", "3">>, <<"_", "1">>, <<"\t", "1", "\r">>,
     <<"/", "/", NonAscii, NL, "a">>, <<"/", "/", NonAscii, NL, Quote, "a", Quote>>,
     <<"/", "/", NonAscii, NL, "1", "2">>, <<"a", NonAscii, "b">>,
     <<Quote, "a", NonAscii, Quote, " ", "1">>, <<"1", " ", "@">>,
     <<"a", " ", Quote, "b", NL, Quote>>, <<NL, Quote, "a", Quote, "1">>,
     <<"/", "/", NonAscii, NonAscii, NL, "1">>, <<"1", "/", "/", "1", NL, "/", "1">>,
     <<"a", "/", "/", "1", NL, "1">>, <<NL, "1", NL, "@", "1">>, <<"a", NL, "@">>,
     <<"1", ".", "1", ".", "a">>}

Sources == SeqsUpTo(Alphabet, MaxLen) \cup TestLexemes \cup Examples

\* texts given to a Scanner that has already been used
ReuseSources ==
    {<<>>, <<"1">>, <<"a">>, <<"!", "=">>, <<"1", NL, "1">>, <<Quote, "a">>,
     <<"1", " ", "a", " ", "1">>}

-----------------------------------------------------------------------------
(* The scanner as a state machine *)

Fields ==
    [cursor |-> cursor, lexeme_start |-> lexeme_start,
     line_number |-> line_number, tokens |-> tokens,
     st |-> "run", error |-> NoError]

ScanInit ==
    /\ source = <<>>
    /\ cursor = NewScanner.cursor
    /\ lexeme_start = NewScanner.lexeme_start
    /\ line_number = NewScanner.line_number
    /\ tokens = NewScanner.tokens
    /\ pc = "idle"
    /\ result = NoResult
    /\ calls = 0

\* entry of Scanner::scan: only the token list is reset
ScanCall(src) ==
    /\ pc \in {"idle", "ok", "err"}
    /\ calls < MaxCalls
    /\ source' = src
    /\ tokens' = <<>>
    /\ pc' = "scanning"
    /\ result' = NoResult
    /\ calls' = calls + 1
    /\ UNCHANGED <<cursor, lexeme_start, line_number>>

\* one iteration of the 'scan loop
ScanStep ==
    /\ pc = "scanning"
    /\ cursor < Len(source)
    /\ LET s == scan_iteration(source, Fields)
       IN /\ cursor' = s.cursor
          /\ lexeme_start' = s.lexeme_start
          /\ line_number' = s.line_number
          /\ tokens' = s.tokens
          /\ pc' = CASE s.st = "run" -> "scanning"
                     [] s.st = "err" -> "err"
                     [] OTHER -> "panic"
          /\ result' = CASE s.st = "run" -> result
                         [] s.st = "err" -> Err(s.error)
                         [] OTHER -> Aborted
    /\ UNCHANGED <<source, calls>>

\* the loop condition fails: Ok(self.tokens[..].to_vec())
ScanReturn ==
    /\ pc = "scanning"
    /\ cursor >= Len(source)
    /\ pc' = "ok"
    /\ result' = Ok(tokens)
    /\ UNCHANGED <<source, cursor, lexeme_start, line_number, tokens, calls>>

\* the lexeme a scanner gives a token of each type
Lexemes ==
    [LeftParen |-> <<"(">>, RightParen |-> <<")">>, Comma |-> <<",">>,
     Semicolon |-> <<";">>, Plus |-> <<"+">>, Minus |-> <<"-">>,
     Star |-> <<"*">>, Slash |-> <<"/">>, Bang |-> <<"!">>,
     BangEqual |-> <<"!", "=">>, Equal |-> <<"=">>, EqualEqual |-> <<"=", "=">>,
     Greater |-> <<">">>, GreaterEqual |-> <<">", "=">>,
     Less |-> <<"<">>, LessEqual |-> <<"<", "=">>,
     Nil |-> <<"n", "i", "l">>, True |-> <<"t", "r", "u", "e">>,
     False |-> <<"f", "a", "l", "s", "e">>, And |-> <<"a", "n", "d">>,
     String |-> <<"s">>, Number |-> <<"1">>, Identifier |-> <<"x">>]

\* token types enumerated exhaustively
ParseKinds ==
    {"LeftParen", "RightParen", "Comma", "EqualEqual", "Less", "Plus", "Star",
     "Minus", "Number", "Identifier"}

\* tokens of the given types, the i-th on line i
OnLines(kinds) == [i \in 1..Len(kinds) |-> Token(kinds[i], Lexemes[kinds[i]], i)]

\* tokens of the given types, all on line 1 as in the parser's tests
OnLine1(kinds) == [i \in 1..Len(kinds) |-> Token(kinds[i], Lexemes[kinds[i]], 1)]

Num(text) == Token("Number", text, 1)

\* the inputs of the tests of recursive_descent.rs, and token sequences the
\* specification names
TestTokens ==
    {OnLine1(k) : k \in
        {<<"Number", "Comma", "Number">>,
         <<"Number", "Comma", "Number", "Comma", "Number">>,
         <<"Number", "EqualEqual", "Number">>, <<"Number", "BangEqual", "Number">>,
         <<"Number", "EqualEqual", "Number", "BangEqual", "Number">>,
         <<"Number", "Greater", "Number">>, <<"Number", "GreaterEqual", "Number">>,
         <<"Number", "Less", "Number">>, <<"Number", "LessEqual", "Number">>,
         <<"Number", "Less", "Number", "GreaterEqual", "Number">>,
         <<"Number", "Plus", "Number">>, <<"Number", "Minus", "Number">>,
         <<"Number", "Minus", "Number", "Minus", "Number">>,
         <<"Number", "Star", "Number">>, <<"Number", "Slash", "Number">>,
         <<"Number", "Slash", "Number", "Slash", "Number">>,
         <<"Bang", "True">>, <<"Minus", "Number">>, <<"Bang", "Bang", "True">>,
         <<"Bang", "Minus", "False">>,
         <<"Nil">>, <<"True">>, <<"False">>, <<"String">>,
         <<"LeftParen", "Nil", "RightParen">>, <<"LeftParen", "Nil">>,
         <<"Number", "Number">>, <<"Bang">>, <<"Number", "Semicolon">>,
         <<"And">>, <<"Equal">>}}
    \cup {<<Num(<<"1">>), Token("Plus", <<"+">>, 1), Num(<<"2">>),
            Token("Star", <<"*">>, 1), Num(<<"3">>)>>,
          <<Num(<<"1">>), Token("Comma", <<",">>, 1), Num(<<"2">>),
            Token("EqualEqual", <<"=", "=">>, 1), Num(<<"3">>)>>,
          <<Num(<<"1", "2", "3", ".", "4", "5", "6">>)>>,
          <<Num(<<"3", ".">>)>>, <<Num(<<".">>)>>, <<Num(<<"1", ".", "0">>)>>,
          <<Num(<<"-", "2">>)>>, <<Num(<<"x">>)>>}

\* the token types the binary rules fold on
BinaryKinds ==
    {"Comma"} \cup DOMAIN EqualityOperators \cup DOMAIN ComparisonOperators
    \cup DOMAIN SumOperators \cup DOMAIN ProductOperators

\* operand, operator, operand, operator, operand for every pair of binary
\* operators, the operands numbers or a negation
OperatorChains ==
    {OnLines(<<"Number", a, "Number", b, "Number">>) : a, b \in BinaryKinds}
    \cup {OnLines(<<"Bang", "True", a, "Minus", "Number">>) : a \in BinaryKinds}

\* four operands joined by three operators of one rule, and chains whose
\* operands are of the next tighter rule
TierChains ==
    UNION {{OnLines(<<"Number", a, "Number", b, "Number", c, "Number">>) : a, b, c \in K} :
              K \in {{"Comma"}, DOMAIN EqualityOperators, DOMAIN ComparisonOperators,
                      DOMAIN SumOperators, DOMAIN ProductOperators}}
    \cup {OnLines(k) : k \in
            {<<"Number", "Star", "Number", "Minus", "Number", "Slash", "Number",
               "Plus", "Number">>,
             <<"Minus", "Number", "Star", "Bang", "True", "Slash", "Minus", "Number">>,
             <<"Number", "Plus", "Number", "Less", "Number", "Minus", "Number",
               "GreaterEqual", "Number">>,
             <<"Number", "Less", "Number", "BangEqual", "Number", "Greater", "Number",
               "EqualEqual", "Number">>,
             <<"Number", "EqualEqual", "Number", "Comma", "Number", "BangEqual",
               "Number", "Comma", "Number">>,
             <<"LeftParen", "Number", "Minus", "Number", "RightParen", "Minus",
               "Number", "Minus", "Number">>}}

\* up to three prefix operators before a literal, and a negation as the
\* left operand of each binary operator
UnaryChains ==
    {OnLines(ops \o <<p>>) :
        ops \in SeqsUpTo(DOMAIN UnaryOperators, 3) \ {<<>>},
        p \in {"True", "Nil", "Number", "String"}}
    \cup {OnLines(<<u, "Number", b, "Number">>) :
            u \in DOMAIN UnaryOperators, b \in BinaryKinds}

\* 1 op 2 op 3 on one line
OneTwoThree(kind, lexeme) ==
    <<Num(<<"1">>), Token(kind, lexeme, 1), Num(<<"2">>), Token(kind, lexeme, 1),
      Num(<<"3">>)>>

OneMinusTwoMinusThree == OneTwoThree("Minus", <<"-">>)
OneSlashTwoSlashThree == OneTwoThree("Slash", <<"/">>)
OneCommaTwoCommaThree == OneTwoThree("Comma", <<",">>)
OneEqualsTwoEqualsThree == OneTwoThree("EqualEqual", <<"=", "=">>)
OneLessTwoLessThree == OneTwoThree("Less", <<"<">>)

NamedChains ==
    {OneMinusTwoMinusThree, OneSlashTwoSlashThree, OneCommaTwoCommaThree,
     OneEqualsTwoEqualsThree, OneLessTwoLessThree,
     OneTwoThree("Plus", <<"+">>),
     <<Token("Minus", <<"-">>, 1), Num(<<"1">>), Token("Star", <<"*">>, 1),
       Num(<<"2">>)>>}

\* a token that starts no operand, read first, after `(`, after a prefix
\* operator and after a binary operator
Misplaced ==
    {OnLines(before \o <<k>>) :
        before \in {<<>>, <<"LeftParen">>, <<"Bang">>, <<"Number", "Slash">>,
                    <<"LeftParen", "Minus", "True", "GreaterEqual">>},
        k \in {"Identifier", "And", "Equal", "RightParen", "Semicolon", "Star",
               "Slash", "Comma", "BangEqual", "LessEqual", "Plus"}}

\* token sequences given to a parser that has already been used, and
\* before that to the same parser
ReuseTokens ==
    {OnLines(k) : k \in
        {<<"Number">>, <<"Number", "Plus", "Number">>, <<"Number", "Number">>,
         <<"LeftParen", "Nil">>, <<"Identifier">>, <<"Star", "Number">>,
         <<"Bang", "True", "EqualEqual", "False">>,
         <<"LeftParen", "Number", "Comma", "String", "RightParen">>}}
    \cup {<<Num(<<"x">>)>>, <<Num(<<"1">>), Token("Plus", <<"+">>, 1), Num(<<".">>)>>}

\* lexemes that str::parse::<f64> rejects
BadNumberLexemes ==
    {<<"x">>, <<".">>, <<"1", ".", "2", ".", "3">>, <<>>, <<"1", "a">>, <<NL, "1">>}

\* a Number token with such a lexeme where an operand starts, alone or
\* with tokens after it
BadNumbers ==
    {[OnLines(before \o <<"Number">> \o after) EXCEPT ![Len(before) + 1].lexeme = lex] :
        before \in {<<>>, <<"LeftParen">>, <<"Minus">>, <<"Number", "Star">>,
                    <<"Bang", "LeftParen", "Nil", "Comma">>},
        after \in {<<>>, <<"Plus", "Number">>, <<"RightParen">>},
        lex \in BadNumberLexemes}

TokenSeqs ==
    ReuseTokens \cup BadNumbers \cup
    {OnLines(k) : k \in SeqsUpTo(ParseKinds, MaxTokens)}
    \cup TestTokens \cup OperatorChains \cup TierChains \cup UnaryChains
    \cup NamedChains \cup Misplaced

\* `(` ts `)`: the parentheses on the lines of the first and last token
Parenthesized(ts) ==
    <<Token("LeftParen", <<"(">>, IF ts = <<>> THEN 1 ELSE ts[1].line_number)>>
    \o ts
    \o <<Token("RightParen", <<")">>, IF ts = <<>> THEN 1 ELSE ts[Len(ts)].line_number)>>

-----------------------------------------------------------------------------
(* The parser as a state machine *)

NoParse == [kind |-> "None", node |-> NoNode, error |-> NoError]
NoPrev == [tokens |-> <<>>, result |-> NoParse]

ParseIdle ==
    /\ p_tokens = NewParser.tokens
    /\ p_cursor = NewParser.cursor
    /\ p_result = NoParse
    /\ p_prev = NoPrev
    /\ p_calls = 0
    /\ p_pc = "idle"

\* Parse::parse(tokens) on this parser instance
ParseCall(ts) ==
    \E r \in {parse([cursor |-> p_cursor, tokens |-> p_tokens], ts)} :
       /\ p_pc \in {"idle", "done"}
       /\ p_calls < MaxParseCalls
       /\ p_tokens' = ts
       /\ p_cursor' = r.cursor
       /\ p_result' = CASE r.st = "ok" -> [kind |-> "Ok", node |-> r.node, error |-> NoError]
                        [] r.st = "err" -> [kind |-> "Err", node |-> NoNode, error |-> r.error]
                        [] OTHER -> [kind |-> "Panic", node |-> NoNode, error |-> NoError]
       /\ p_prev' = [tokens |-> p_tokens, result |-> p_result]
       /\ p_calls' = p_calls + 1
       /\ p_pc' = IF r.st = "panic" THEN "panic" ELSE "done"

\* a caller parses a token sequence with a new parser
Parse ==
    /\ p_calls = 0
    /\ \E ts \in TokenSeqs : ParseCall(ts)
    /\ UNCHANGED <<scan_vars, driver_vars>>

\* a caller parses the tokens it parsed successfully before, now between
\* parentheses, with the same parser
ParseGroup ==
    /\ p_result.kind = "Ok"
    /\ ParseCall(Parenthesized(p_tokens))
    /\ UNCHANGED <<scan_vars, driver_vars>>

\* a caller parses another token sequence with the parser it used before
ParseAgain ==
    /\ p_calls >= 1
    /\ p_tokens \in ReuseTokens
    /\ \E ts \in ReuseTokens : ParseCall(ts)
    /\ UNCHANGED <<scan_vars, driver_vars>>

-----------------------------------------------------------------------------
(* The driver binary, src/main.rs: it declares no `mod`, so the Scanner    *)
(* and the ast::RecursiveDescentParser it runs are the ones embedded in    *)
(* main.rs. Their definitions carry the prefix main_; Scanner::new,        *)
(* Scanner::add_token, Token::new, TokenType::from_str, the 'line_comment  *)
(* loop and the whitespace and newline arms have in main.rs the text they  *)
(* have in scanner.rs, and are modelled by the definitions above.          *)

\* &characters[from..to] on the Vec<char>: a slice by CHAR index. Panics
\* when from > to or when to is past the end.
main_slice(characters, from, to) ==
    IF from > to \/ to > Len(characters)
    THEN [ok |-> FALSE, text |-> <<>>]
    ELSE [ok |-> TRUE, text |-> SubSeq(characters, from + 1, to)]

\* the '/' arm: characters[self.cursor + 1] is read with no bounds test
main_slash(characters, s) ==
    IF s.cursor + 1 >= Len(characters) THEN Panic(s)
    ELSE IF At(characters, s.cursor + 1) = "/"
    THEN line_comment(characters, s)
    ELSE add_token(s, "Slash", <<"/">>)

\* the '!', '=', '>' and '<' arms: characters[self.cursor + 1] is read with
\* no bounds test
main_operator(characters, s) ==
    LET c == At(characters, s.cursor)
    IN IF s.cursor + 1 >= Len(characters) THEN Panic(s)
       ELSE IF At(characters, s.cursor + 1) = "="
       THEN add_token([s EXCEPT !.cursor = s.cursor + 1],
                      OperatorTokens[c].two, <<c, "=">>)
       ELSE add_token(s, OperatorTokens[c].one, <<c>>)

RECURSIVE main_string_literal(_, _)
\* the 'string_literal loop: characters[self.cursor] is read before the
\* bounds test of the second `if`
main_string_literal(characters, s) ==
    LET c == s.cursor + 1
        s1 == [s EXCEPT !.cursor = c]
    IN IF c >= Len(characters)
       THEN Panic(s1)
       ELSE IF At(characters, c) = Quote
       THEN LET lit == main_slice(characters, s.lexeme_start + 1, c)
            IN IF lit.ok THEN add_token(s1, "String", lit.text) ELSE Panic(s1)
       ELSE IF At(characters, c) = NL
       THEN [s1 EXCEPT !.st = "err",
                       !.error = Error(s.line_number, <<"Unterminated string">>)]
       ELSE main_string_literal(characters, s1)

RECURSIVE main_number_loop(_, _)
\* the 'number_literal loop up to its last `if`: the cursor where the run
\* of digits and of `.`s before a digit ends, ok FALSE when
\* characters[self.cursor] or characters[self.cursor + 1] is read past the
\* end
main_number_loop(characters, c) ==
    IF c + 1 >= Len(characters) THEN [ok |-> FALSE, cursor |-> c + 1]
    ELSE IF is_digit(At(characters, c + 1)) THEN main_number_loop(characters, c + 1)
    ELSE IF At(characters, c + 1) # "." THEN [ok |-> TRUE, cursor |-> c + 1]
    ELSE IF c + 2 >= Len(characters) THEN [ok |-> FALSE, cursor |-> c + 1]
    ELSE IF is_digit(At(characters, c + 2)) THEN main_number_loop(characters, c + 1)
    ELSE [ok |-> TRUE, cursor |-> c + 1]

\* the digit branch of the default arm
main_number_literal(characters, s) ==
    LET run == main_number_loop(characters, s.cursor)
        c == run.cursor - 1
        lit == main_slice(characters, s.lexeme_start, c + 1)
        s1 == [s EXCEPT !.cursor = c]
    IN IF ~run.ok THEN Panic([s EXCEPT !.cursor = run.cursor])
       ELSE IF lit.ok THEN add_token(s1, "Number", lit.text)
       ELSE Panic(s1)

RECURSIVE main_identifier_loop(_, _)
\* the 'identifier_literal loop up to the slice: the cursor where the run
\* ends, ok FALSE when characters[self.cursor] is read past the end
main_identifier_loop(characters, c) ==
    IF c + 1 >= Len(characters) THEN [ok |-> FALSE, cursor |-> c + 1]
    ELSE IF is_alphanumeric(At(characters, c + 1)) \/ At(characters, c + 1) = "_"
    THEN main_identifier_loop(characters, c + 1)
    ELSE [ok |-> TRUE, cursor |-> c + 1]

\* the alphabetic branch of the default arm. add_token runs with the cursor
\* already past the run and adds one more.
main_identifier_literal(characters, s) ==
    LET run == main_identifier_loop(characters, s.cursor)
        lit == main_slice(characters, s.lexeme_start, run.cursor)
        s1 == [s EXCEPT !.cursor = run.cursor]
    IN IF ~run.ok THEN Panic(s1)
       ELSE IF lit.ok THEN add_token(s1, from_str(lit.text), lit.text)
       ELSE Panic(s1)

\* the default arm
main_default_arm(characters, s) ==
    LET c == At(characters, s.cursor)
    IN IF is_digit(c) THEN main_number_literal(characters, s)
       ELSE IF is_alphabetic(c) \/ c = "_" THEN main_identifier_literal(characters, s)
       ELSE [s EXCEPT !.st = "err",
                      !.error = Error(s.line_number, <<"Unexpected character", c>>)]

\* one iteration of the 'scan loop: the match on characters[self.cursor]
main_scan_iteration(characters, s) ==
    LET c == At(characters, s.cursor)
    IN CASE c \in DOMAIN SingleCharTokens -> add_token(s, SingleCharTokens[c], <<c>>)
         [] c = "/" -> main_slash(characters, s)
         [] c \in DOMAIN OperatorTokens -> main_operator(characters, s)
         [] c = Quote -> main_string_literal(characters, s)
         [] c \in {" ", "\r", "\t"} -> whitespace(s)
         [] c = NL -> newline(s)
         [] OTHER -> main_default_arm(characters, s)

RECURSIVE main_scan_loop(_, _)
\* the 'scan loop run to its end from scanner state s
main_scan_loop(characters, s) ==
    IF s.st # "run" THEN s
    ELSE IF s.cursor < Len(characters)
    THEN main_scan_loop(characters, main_scan_iteration(characters, s))
    ELSE s

\* Scanner::scan of main.rs on a Scanner in state s0: the Scanner when the
\* call ends, st "run" for Ok(()), "err" for Err((error.line_number,
\* error.message)); the tokens pushed so far stay in the tokens field
main_scan(s0, source_code) ==
    main_scan_loop(source_code, [s0 EXCEPT !.tokens = <<>>])

\* ast::Literal::Grouping
LiteralGrouping(node) == [type |-> "Grouping", node |-> node]

RECURSIVE main_parse_expression(_, _)
RECURSIVE main_parse_equality(_, _)
RECURSIVE main_equality_loop(_, _)
RECURSIVE main_parse_comparison(_, _)
RECURSIVE main_comparison_loop(_, _)
RECURSIVE main_parse_sum(_, _)
RECURSIVE main_sum_loop(_, _)
RECURSIVE main_parse_product(_, _)
RECURSIVE main_product_loop(_, _)
RECURSIVE main_parse_unary(_, _)
RECURSIVE main_parse_primary(_, _)
RECURSIVE main_grouping(_, _)

\* ast::RecursiveDescentParser::parse_expression
main_parse_expression(ts, c) ==
    Let(main_parse_equality(ts, c),
        LAMBDA r : IF r.st = "ok" THEN POk(Expression(r.node), r.cursor) ELSE r)

\* the while loop of parse_equality
main_equality_loop(ts, r) ==
    IF r.cursor < Len(ts) /\ TokenAt(ts, r.cursor).token_type \in DOMAIN EqualityOperators
    THEN Let(main_parse_comparison(ts, r.cursor + 1),
             LAMBDA rhs :
                IF rhs.st = "ok"
                THEN main_equality_loop(ts, POk(Equality(EqualityOperators[TokenAt(ts, r.cursor).token_type],
                                                r.node, rhs.node), rhs.cursor))
                ELSE rhs)
    ELSE r

\* ast::RecursiveDescentParser::parse_equality
main_parse_equality(ts, c) ==
    Let(main_parse_comparison(ts, c),
        LAMBDA r : IF r.st = "ok" THEN main_equality_loop(ts, r) ELSE r)

\* the while loop of parse_comparison
main_comparison_loop(ts, r) ==
    IF r.cursor < Len(ts) /\ TokenAt(ts, r.cursor).token_type \in DOMAIN ComparisonOperators
    THEN Let(main_parse_sum(ts, r.cursor + 1),
             LAMBDA rhs :
                IF rhs.st = "ok"
                THEN main_comparison_loop(ts, POk(Comparison(ComparisonOperators[TokenAt(ts, r.cursor).token_type],
                                                  r.node, rhs.node), rhs.cursor))
                ELSE rhs)
    ELSE r

\* ast::RecursiveDescentParser::parse_comparison
main_parse_comparison(ts, c) ==
    Let(main_parse_sum(ts, c),
        LAMBDA r : IF r.st = "ok" THEN main_comparison_loop(ts, r) ELSE r)

\* the while loop of parse_sum
main_sum_loop(ts, r) ==
    IF r.cursor < Len(ts) /\ TokenAt(ts, r.cursor).token_type \in DOMAIN SumOperators
    THEN Let(main_parse_product(ts, r.cursor + 1),
             LAMBDA rhs :
                IF rhs.st = "ok"
                THEN main_sum_loop(ts, POk(Sum(SumOperators[TokenAt(ts, r.cursor).token_type],
                                           r.node, rhs.node), rhs.cursor))
                ELSE rhs)
    ELSE r

\* ast::RecursiveDescentParser::parse_sum
main_parse_sum(ts, c) ==
    Let(main_parse_product(ts, c),
        LAMBDA r : IF r.st = "ok" THEN main_sum_loop(ts, r) ELSE r)

\* the arms of parse_product's match: the token type that is folded and
\* the ProductOperator put in the node
main_ProductOperators == [Star |-> "Star", Minus |-> "Slash"]

\* the while loop of parse_product
main_product_loop(ts, r) ==
    IF r.cursor < Len(ts) /\ TokenAt(ts, r.cursor).token_type \in DOMAIN main_ProductOperators
    THEN Let(main_parse_unary(ts, r.cursor + 1),
             LAMBDA rhs :
                IF rhs.st = "ok"
                THEN main_product_loop(ts, POk(Product(main_ProductOperators[TokenAt(ts, r.cursor).token_type],
                                               r.node, rhs.node), rhs.cursor))
                ELSE rhs)
    ELSE r

\* ast::RecursiveDescentParser::parse_product
main_parse_product(ts, c) ==
    Let(main_parse_unary(ts, c),
        LAMBDA r : IF r.st = "ok" THEN main_product_loop(ts, r) ELSE r)

\* ast::RecursiveDescentParser::parse_unary: self.tokens[self.cursor] is
\* read with no test of the cursor against the length
main_parse_unary(ts, c) ==
    IF c >= Len(ts) THEN PPanic(c)
    ELSE IF TokenAt(ts, c).token_type \in DOMAIN UnaryOperators
    THEN Let(main_parse_unary(ts, c + 1),
             LAMBDA r :
                IF r.st = "ok"
                THEN POk(Unary(UnaryOperators[TokenAt(ts, c).token_type], r.node), r.cursor)
                ELSE r)
    ELSE main_parse_primary(ts, c)

\* the TokenType::Number arm of parse_primary; the error is a String
main_number(ts, c) ==
    LET parsed == parse_f64(TokenAt(ts, c).lexeme)
    IN IF parsed.ok
       THEN POk(Primary(LiteralNumber(parsed.value)), c + 1)
       ELSE PErr(<<"Failed to parse number", TokenAt(ts, c).lexeme>>, c)

\* the TokenType::LeftParen arm of parse_primary
main_grouping(ts, c) ==
    Let(main_parse_expression(ts, c + 1),
        LAMBDA r :
           IF r.st # "ok" THEN r
           ELSE IF r.cursor < Len(ts) /\ TokenAt(ts, r.cursor).token_type = "RightParen"
           THEN POk(Primary(LiteralGrouping(r.node)), r.cursor + 1)
           ELSE PErr(<<"Expected token ')' at line", TokenAt(ts, r.cursor - 1).line_number>>,
                     r.cursor))

\* ast::RecursiveDescentParser::parse_primary
main_parse_primary(ts, c) ==
    IF c >= Len(ts) THEN PPanic(c)
    ELSE LET tt == TokenAt(ts, c).token_type
         IN CASE tt = "Nil" -> POk(Primary(LiteralNil), c + 1)
              [] tt = "True" -> POk(Primary(LiteralTrue), c + 1)
              [] tt = "False" -> POk(Primary(LiteralFalse), c + 1)
              [] tt = "Number" -> main_number(ts, c)
              [] tt = "String" -> POk(Primary(LiteralString(TokenAt(ts, c).lexeme)), c + 1)
              [] tt = "LeftParen" -> main_grouping(ts, c)
              [] OTHER -> PErr(<<"Unexpected token at line", TokenAt(ts, c).line_number,
                                 TokenAt(ts, c).lexeme>>, c)

\* ast::RecursiveDescentParser::new(tokens).parse()
main_parse(ts) == main_parse_expression(ts, 0)

-----------------------------------------------------------------------------
(* The driver as a state machine: main, Interpreter::run_file,             *)
(* Interpreter::run_prompt and Interpreter::run of src/main.rs             *)

\* the characters lines are enumerated over
LineAlphabet == {"1", "-", "/", "@", " "}

\* further lines, without their line end
LineExamples ==
    {<<"1", " ", "-", " ", "2">>, <<"1", " ", "/", " ", "2">>,
     <<"1", "-", "2">>, <<"1", "/", "2">>, <<"1", "*", "2">>, <<"1", "+", "2">>,
     <<"1", " ", "@">>, <<"1", " ", Quote, "a">>, <<Quote, "a", Quote>>,
     <<"1", "-", "2", "-", "3">>, <<"1", "*", "2", "-", "3">>,
     <<"1", "+", "2", "-", "3">>, <<"1", "/", "2", "/", "3">>,
     <<"-", "1", "-", "2">>, <<"(", "1", "-", "2", ")">>, <<"(", "1">>,
     <<"1", "=", "=", "2">>, <<"1", "<", "2">>, <<"!", "1">>,
     <<"n", "i", "l", " ">>, <<"a">>, <<"1", ".", "5">>, <<"1", ".", "2", ".", "3">>,
     <<"1", " ", "/", "/", "2">>, <<"1", ")">>, <<"1", "-", "@">>}

\* what read_line hands to run: a line with its line end
Lines == {Append(w, NL) : w \in SeqsUpTo(LineAlphabet, MaxLineLen) \cup LineExamples}

\* what read_to_string hands to run: any text, its last line with or
\* without a line end
Files ==
    Lines \cup SeqsUpTo(LineAlphabet, MaxLineLen) \cup LineExamples
    \cup {<<"1", "-", "2", NL, "1", " ", "@", NL>>, <<"1", NL, "@", NL>>}

\* the record kept of a run call: the source text, how scan ended (Ok, Err,
\* Panic) and its error, scanner.tokens, whether RecursiveDescentParser::
\* parse was called, and what it returned
NoRun ==
    [source |-> <<>>, scan |-> "None", error |-> NoError, tokens |-> <<>>,
     parsed |-> FALSE, node |-> NoParse]

\* Interpreter::run: scan, then parse whatever scan ended with
run(source_code) ==
    Let(main_scan(NewScanner, source_code),
        LAMBDA s :
           IF s.st = "panic"
           THEN [source |-> source_code, scan |-> "Panic", error |-> NoError,
                 tokens |-> s.tokens, parsed |-> FALSE, node |-> NoParse]
           ELSE Let(main_parse(s.tokens),
                    LAMBDA r :
                       [source |-> source_code,
                        scan |-> IF s.st = "err" THEN "Err" ELSE "Ok",
                        error |-> s.error,
                        tokens |-> s.tokens,
                        parsed |-> TRUE,
                        node |-> CASE r.st = "ok" -> [kind |-> "Ok", node |-> r.node, error |-> NoError]
                                   [] r.st = "err" -> [kind |-> "Err", node |-> NoNode, error |-> r.error]
                                   [] OTHER -> [kind |-> "Panic", node |-> NoNode, error |-> NoError]]))

\* the run call panicked, in scan or in parse
Panicked(r) == r.scan = "Panic" \/ r.node.kind = "Panic"

\* Interpreter::report: the line written to the diagnostic stream
report(line, message) == [line_number |-> line, message |-> message]

\* Interpreter::new, before main has looked at its arguments
DriverIdle ==
    /\ had_error = FALSE
    /\ d_pc = "start"
    /\ d_read = "None"
    /\ d_run = NoRun
    /\ d_stderr = <<>>
    /\ d_reads = 0

\* Interpreter::run on this Interpreter: the scan error, if any, is
\* reported through Interpreter::error before the parser is called
RunCall(source_code) ==
    \E r \in {run(source_code)} :
       /\ d_run' = r
       /\ had_error' = (had_error \/ r.scan = "Err")
       /\ d_stderr' = IF r.scan = "Err"
                      THEN Append(d_stderr, report(r.error.line_number, r.error.message))
                      ELSE d_stderr

\* main with more than one argument
Usage ==
    /\ d_pc = "start"
    /\ d_pc' = "usage"
    /\ d_stderr' = Append(d_stderr, <<"Usage: rustlox [script]">>)
    /\ UNCHANGED <<had_error, d_read, d_run, d_reads, scan_vars, parse_vars>>

\* main with one argument, Interpreter::run_file: the file cannot be read,
\* or its text is run
RunFile ==
    /\ d_pc = "start"
    /\ \/ /\ d_pc' = "failed"
          /\ d_stderr' = Append(d_stderr, <<"io error">>)
          /\ UNCHANGED <<had_error, d_run>>
       \/ \E text \in Files :
             /\ RunCall(text)
             /\ d_pc' = IF Panicked(d_run') THEN "panic" ELSE "done"
    /\ UNCHANGED <<d_read, d_reads, scan_vars, parse_vars>>

\* main with no argument: Interpreter::run_prompt enters its loop
RunPrompt ==
    /\ d_pc = "start"
    /\ d_pc' = "prompt"
    /\ UNCHANGED <<had_error, d_read, d_run, d_stderr, d_reads, scan_vars, parse_vars>>

\* run_prompt: flushing the prompt fails
FlushError ==
    /\ d_pc = "prompt"
    /\ d_pc' = "failed"
    /\ d_stderr' = Append(d_stderr, <<"io error">>)
    /\ UNCHANGED <<had_error, d_read, d_run, d_reads, scan_vars, parse_vars>>

\* run_prompt: read_line gives Err(error)
ReadError ==
    /\ d_pc = "prompt"
    /\ d_read' = "Err"
    /\ d_pc' = "failed"
    /\ d_stderr' = Append(d_stderr, <<"io error">>)
    /\ UNCHANGED <<had_error, d_run, d_reads, scan_vars, parse_vars>>

\* run_prompt: read_line gives Ok(0)
ReadEof ==
    /\ d_pc = "prompt"
    /\ d_read' = "Eof"
    /\ d_pc' = "done"
    /\ UNCHANGED <<had_error, d_run, d_stderr, d_reads, scan_vars, parse_vars>>

\* run_prompt: read_line gives a line, which is run; the loop returns
\* Ok(()) when had_error is set
ReadLine ==
    /\ d_pc = "prompt"
    /\ d_reads < MaxLines
    /\ \E line \in Lines : RunCall(line)
    /\ d_read' = "Line"
    /\ d_reads' = d_reads + 1
    /\ d_pc' = IF Panicked(d_run') THEN "panic"
               ELSE IF had_error' THEN "done"
               ELSE "prompt"
    /\ UNCHANGED <<scan_vars, parse_vars>>

DriverNext ==
    Usage \/ RunFile \/ RunPrompt \/ FlushError \/ ReadError \/ ReadEof \/ ReadLine

-----------------------------------------------------------------------------

Init == ScanInit /\ ParseIdle /\ DriverIdle

ParseNext == Parse \/ ParseGroup \/ ParseAgain

ParseSpec == Init /\ [][ParseNext]_vars

\* a caller scans a text: any text on a new Scanner, one of ReuseSources on
\* a used one
Scan ==
    /\ \E src \in (IF calls = 0 THEN Sources ELSE ReuseSources) : ScanCall(src)
    /\ UNCHANGED <<parse_vars, driver_vars>>

Step == ScanStep /\ UNCHANGED <<parse_vars, driver_vars>>

Return == ScanReturn /\ UNCHANGED <<parse_vars, driver_vars>>

Next == Scan \/ Step \/ Return

Spec == Init /\ [][Next]_vars

DriverSpec == Init /\ [][DriverNext]_vars

-----------------------------------------------------------------------------
(* Scanner properties *)

ScanEnded == pc \in {"ok", "err", "panic"}
FirstCall == calls = 1

Symbols ==
    {<<c>> : c \in DOMAIN SingleCharTokens \cup DOMAIN OperatorTokens \cup {"/"}}
    \cup {<<c, "=">> : c \in DOMAIN OperatorTokens}

SymbolKind(w) ==
    IF Len(w) = 2 THEN OperatorTokens[w[1]].two
    ELSE IF w[1] \in DOMAIN OperatorTokens THEN OperatorTokens[w[1]].one
    ELSE IF w[1] = "/" THEN "Slash"
    ELSE SingleCharTokens[w[1]]

IsReservedWord(w) == \E k \in ReservedWords : k.word = w

\* `"` text `"` with neither quote nor newline in the text
IsStringLexeme(w) ==
    /\ Len(w) >= 2
    /\ w[1] = Quote
    /\ w[Len(w)] = Quote
    /\ \A i \in 2..(Len(w) - 1) : w[i] \notin {Quote, NL}

\* digits, optionally followed by one `.` and at least one digit
IsNumberLexeme(w) ==
    /\ Len(w) >= 1
    /\ \A i \in 1..Len(w) : w[i] \in Digits \cup {"."}
    /\ Cardinality({i \in 1..Len(w) : w[i] = "."}) <= 1
    /\ w[1] # "."
    /\ w[Len(w)] # "."

\* a letter or `_`, then letters, digits or `_`; not a reserved word
IsIdentifierLexeme(w) ==
    /\ Len(w) >= 1
    /\ is_alphabetic(w[1]) \/ w[1] = "_"
    /\ \A i \in 1..Len(w) : is_alphanumeric(w[i]) \/ w[i] = "_"
    /\ ~IsReservedWord(w)

IsSingleLexeme(w) ==
    \/ w \in Symbols
    \/ IsReservedWord(w)
    \/ IsStringLexeme(w)
    \/ IsNumberLexeme(w)
    \/ IsIdentifierLexeme(w)

\* the one token the text of a single lexeme stands for
ExpectedToken(w) ==
    CASE w \in Symbols -> Token(SymbolKind(w), w, 1)
      [] IsReservedWord(w) ->
            Token((CHOOSE k \in ReservedWords : k.word = w).token_type, w, 1)
      [] IsStringLexeme(w) -> Token("String", SubSeq(w, 2, Len(w) - 1), 1)
      [] IsNumberLexeme(w) -> Token("Number", w, 1)
      [] OTHER -> Token("Identifier", w, 1)

\* C1: a first scan of a text that is exactly one valid lexeme returns Ok
\* with exactly one token of the expected kind, the exact lexeme and line 1.
C1_SingleLexemeScansToOneToken ==
    (ScanEnded /\ FirstCall /\ IsSingleLexeme(source))
        => result = Ok(<<ExpectedToken(source)>>)

NewlinesIn(w) == Cardinality({i \in 1..Len(w) : w[i] = NL})

\* w is text without strings or comments, then `"`, then text without quote
\* or newline up to the end; the value is the place of that opening quote
OpeningQuotes(w) ==
    {q \in 1..Len(w) :
        /\ w[q] = Quote
        /\ \A i \in 1..(q - 1) : w[i] \notin {Quote, "/"}
        /\ \A i \in (q + 1)..Len(w) : w[i] \notin {Quote, NL}}

\* C2: a first scan of a text that ends inside a string literal returns a
\* ScanError whose line is the line of the opening quote.
C2_UnterminatedStringIsScanError ==
    (ScanEnded /\ FirstCall /\ OpeningQuotes(source) # {})
        => /\ result.kind = "Err"
           /\ \A q \in OpeningQuotes(source) :
                 result.error.line_number = 1 + NewlinesIn(SubSeq(source, 1, q - 1))

\* C6: every Number token has a lexeme of digits, optionally followed by
\* one `.` and at least one digit; `3.` scans as Number("3"), Dot.
C6_NumberLexemeShape ==
    /\ \A i \in 1..Len(tokens) :
          tokens[i].token_type = "Number" => IsNumberLexeme(tokens[i].lexeme)
    /\ (pc = "ok" /\ FirstCall /\ source = <<"3", ".">>)
          => result = Ok(<<Token("Number", <<"3">>, 1), Token("Dot", <<".">>, 1)>>)

\* C7: every scan call on one Scanner returns what a newly constructed
\* Scanner returns for the same text.
C7_ScanStateDoesNotOutliveCall ==
    ScanEnded => result = scan(NewScanner, source)

\* C8: on a first scan that succeeds, each token's line is 1 plus the number
\* of newlines before the token's first character, so lines never decrease.
C8_LineTracking ==
    [][(pc = "scanning" /\ FirstCall /\ scan(NewScanner, source).kind = "Ok"
        /\ Len(tokens') = Len(tokens) + 1)
          => /\ tokens'[Len(tokens')].line_number
                    = 1 + NewlinesIn(SubSeq(source, 1, cursor))
             /\ \A i \in 1..Len(tokens) :
                    tokens[i].line_number <= tokens'[Len(tokens')].line_number]_vars

OperatorKinds ==
    {OperatorTokens[c].one : c \in DOMAIN OperatorTokens}
    \cup {OperatorTokens[c].two : c \in DOMAIN OperatorTokens}

RECURSIVE MunchOperators(_, _)
\* the operator tokens of w from place i on, longest match first
MunchOperators(w, i) ==
    IF i > Len(w) THEN <<>>
    ELSE IF w[i] \notin DOMAIN OperatorTokens THEN MunchOperators(w, i + 1)
    ELSE IF i < Len(w) /\ w[i + 1] = "="
    THEN <<OperatorTokens[w[i]].two>> \o MunchOperators(w, i + 2)
    ELSE <<OperatorTokens[w[i]].one>> \o MunchOperators(w, i + 1)

IsOperatorToken(tok) == tok.token_type \in OperatorKinds

KindsOf(toks) == [i \in 1..Len(toks) |-> toks[i].token_type]

\* C9: in a text without strings and comments, each `!`, `=`, `>`, `<`
\* followed by `=` gives the combined token and any other gives the
\* one-character token.
C9_MaximalMunch ==
    (pc = "ok" /\ FirstCall /\ \A i \in 1..Len(source) : source[i] \notin {Quote, "/"})
        => KindsOf(SelectSeq(result.tokens, IsOperatorToken)) = MunchOperators(source, 1)

-----------------------------------------------------------------------------
(* Parser properties *)

BinaryOperatorTypes ==
    {"Comma", "EqualEqual", "BangEqual", "Greater", "GreaterEqual", "Less",
     "LessEqual", "Plus", "Minus", "Star", "Slash"}

\* the tokens end where a rule still expects an operand
EndsExpectingOperand(ts) ==
    \/ ts = <<>>
    \/ ts[Len(ts)].token_type \in BinaryOperatorTypes \cup {"Bang", "LeftParen"}

\* C3: parse never reads tokens[cursor] with the cursor at or past the end;
\* tokens that end where an operand is expected give a ParseError.
C3_PastTheEndIsParseError ==
    p_pc # "idle"
        => /\ p_result.kind # "Panic"
           /\ EndsExpectingOperand(p_tokens) => p_result.kind = "Err"

\* the last call parsed, between parentheses, the tokens the call before
\* parsed successfully
Regrouped ==
    /\ p_calls >= 2
    /\ p_prev.result.kind = "Ok"
    /\ p_tokens = Parenthesized(p_prev.tokens)

\* C4 as claimed: parsing `(` ts `)` returns exactly the tree of parsing ts.
C4_ParenthesesTransparent ==
    Regrouped => p_result = p_prev.result

RECURSIVE StripExpressions(_)
\* the tree without its Expression nodes
StripExpressions(n) ==
    CASE n.type = "Expression" -> StripExpressions(n.child)
      [] n.type = "Unary" -> [n EXCEPT !.operand = StripExpressions(@)]
      [] n.type = "Primary" -> n
      [] OTHER -> [n EXCEPT !.left = StripExpressions(@),
                            !.right = StripExpressions(@)]

RECURSIVE CountExpressions(_)
\* the number of Expression nodes of the tree
CountExpressions(n) ==
    CASE n.type = "Expression" -> 1 + CountExpressions(n.child)
      [] n.type = "Unary" -> CountExpressions(n.operand)
      [] n.type = "Primary" -> 0
      [] OTHER -> CountExpressions(n.left) + CountExpressions(n.right)

\* C4 amended: parsing `(` ts `)` succeeds when parsing ts does, and gives
\* the tree of ts but for Expression nodes, of which it has one more.
C4_ParenthesesAddOneExpression ==
    Regrouped
        => /\ p_result.kind = "Ok"
           /\ StripExpressions(p_result.node) = StripExpressions(p_prev.result.node)
           /\ CountExpressions(p_result.node) = CountExpressions(p_prev.result.node) + 1

C4_Witness ==
    /\ Regrouped
    /\ KindsOf(p_prev.tokens) = <<"Number", "Plus", "Number">>
    /\ p_result.kind = "Ok"
    /\ CountExpressions(p_result.node) = 2

\* C5: when ts parses to Expression(t), `(` ts `)` parses to
\* Expression(Expression(t)); `( nil )` is Expression(Expression(Primary(Nil))).
C5_GroupIsNestedExpression ==
    /\ Regrouped
          => /\ p_result.kind = "Ok"
             /\ p_prev.result.node.type = "Expression"
             /\ p_result.node = Expression(p_prev.result.node)
    /\ (p_pc = "done" /\ KindsOf(p_tokens) = <<"LeftParen", "Nil", "RightParen">>)
          => /\ p_result.kind = "Ok"
             /\ p_result.node = Expression(Expression(Primary(LiteralNil)))

C5_Witness ==
    /\ Regrouped
    /\ KindsOf(p_prev.tokens) = <<"Nil">>
    /\ p_result.node = Expression(Expression(Primary(LiteralNil)))

\* series < equality < comparison < sum < product < unary < primary; a
\* parenthesized group, an Expression node, counts as tightest
Tier(n) ==
    CASE n.type = "Series" -> 0
      [] n.type = "Equality" -> 1
      [] n.type = "Comparison" -> 2
      [] n.type = "Sum" -> 3
      [] n.type = "Product" -> 4
      [] n.type = "Unary" -> 5
      [] n.type = "Primary" -> 6
      [] n.type = "Expression" -> 7

RECURSIVE TiersDescend(_)
\* every binary node has a right operand of a strictly tighter tier and a
\* left operand of its own tier or tighter
TiersDescend(n) ==
    CASE n.type = "Expression" -> TiersDescend(n.child)
      [] n.type = "Unary" -> TiersDescend(n.operand)
      [] n.type = "Primary" -> TRUE
      [] OTHER -> /\ Tier(n.right) > Tier(n)
                  /\ Tier(n.left) >= Tier(n)
                  /\ TiersDescend(n.left)
                  /\ TiersDescend(n.right)

NumberNode(n) == Primary(LiteralNumber(<<n, 0>>))

OnePlusTwoTimesThree ==
    <<Num(<<"1">>), Token("Plus", <<"+">>, 1), Num(<<"2">>),
      Token("Star", <<"*">>, 1), Num(<<"3">>)>>

OneCommaTwoEqualsThree ==
    <<Num(<<"1">>), Token("Comma", <<",">>, 1), Num(<<"2">>),
      Token("EqualEqual", <<"=", "=">>, 1), Num(<<"3">>)>>

\* C10: in every tree parse returns, a binary node's right operand is of a
\* strictly tighter tier (or a group) and its left operand of the same tier
\* or tighter (or a group); 1+2*3 is Sum(Plus, 1, Product(Star, 2, 3)) and
\* 1 , 2 == 3 is Series(1, Equality(Equal, 2, 3)).
C10_PrecedenceShape ==
    /\ p_result.kind = "Ok" => TiersDescend(p_result.node)
    /\ (p_pc = "done" /\ p_tokens = OnePlusTwoTimesThree)
          => p_result.node =
                Expression(Sum("Plus", NumberNode(1),
                               Product("Star", NumberNode(2), NumberNode(3))))
    /\ (p_pc = "done" /\ p_tokens = OneCommaTwoEqualsThree)
          => p_result.node =
                Expression(Series(NumberNode(1),
                                  Equality("Equal", NumberNode(2), NumberNode(3))))

C10_Witness ==
    /\ p_tokens = OnePlusTwoTimesThree
    /\ p_result.kind = "Ok"
    /\ p_result.node.child.type = "Sum"
    /\ p_result.node.child.right.type = "Product"

-----------------------------------------------------------------------------
(* Associativity *)

\* the token types an operand can end with
OperandEnds == {"Number", "String", "Nil", "True", "False", "RightParen"}

\* `(` minus `)` among the tokens before place i
Depth(ts, i) ==
    Cardinality({j \in 1..(i - 1) : ts[j].token_type = "LeftParen"})
    - Cardinality({j \in 1..(i - 1) : ts[j].token_type = "RightParen"})

\* the places of the operators of the given types that stand outside every
\* parenthesis and after an operand
Joints(ts, kinds) ==
    {i \in 2..Len(ts) :
        /\ ts[i].token_type \in kinds
        /\ Depth(ts, i) = 0
        /\ ts[i - 1].token_type \in OperandEnds}

\* the k-th smallest member of S
Nth(S, k) == CHOOSE i \in S : Cardinality({j \in S : j < i}) = k - 1

\* the tokens of operand k (from 0) of the chain cut at the places S
OperandTokens(ts, S, k) ==
    SubSeq(ts, IF k = 0 THEN 1 ELSE Nth(S, k) + 1,
               IF k = Cardinality(S) THEN Len(ts) ELSE Nth(S, k + 1) - 1)

\* ts is two or more operands joined by operators of the given types, each
\* operand a whole phrase of the next tighter rule
IsChain(ts, kinds, Rule(_, _)) ==
    /\ Joints(ts, kinds) # {}
    /\ \A k \in 0..Cardinality(Joints(ts, kinds)) :
          Let(OperandTokens(ts, Joints(ts, kinds), k),
              LAMBDA piece :
                 Let(Rule(piece, 0),
                     LAMBDA r : r.st = "ok" /\ r.cursor = Len(piece)))

\* ((a0 op1 a1) op2 a2) ... : the operands folded from the left, node k
\* made by Make from the operator token at joint k
LeftFold(ts, kinds, Rule(_, _), Make(_, _, _)) ==
    LET S == Joints(ts, kinds)
        operand(k) == Rule(OperandTokens(ts, S, k), 0).node
        fold[k \in 0..Cardinality(S)] ==
            IF k = 0 THEN operand(0)
            ELSE Make(ts[Nth(S, k)].token_type, fold[k - 1], operand(k))
    IN fold[Cardinality(S)]

ParsedOk(node) == [kind |-> "Ok", node |-> node, error |-> NoError]

MakeSum(op, l, r) == Sum(SumOperators[op], l, r)
MakeProduct(op, l, r) == Product(ProductOperators[op], l, r)

\* C11: products joined by `+`/`-`, and unaries joined by `*`/`/`, parse to
\* the left-leaning tree, each node with the operator of its position;
\* 1-2-3 is Sum(Minus, Sum(Minus, 1, 2), 3) and 1/2/3 is
\* Product(Slash, Product(Slash, 1, 2), 3).
C11_SumAndProductLeftAssociative ==
    /\ (p_pc # "idle" /\ IsChain(p_tokens, DOMAIN SumOperators, parse_product))
          => p_result = ParsedOk(Expression(
                LeftFold(p_tokens, DOMAIN SumOperators, parse_product, MakeSum)))
    /\ (p_pc # "idle" /\ IsChain(p_tokens, DOMAIN ProductOperators, parse_unary))
          => p_result = ParsedOk(Expression(
                LeftFold(p_tokens, DOMAIN ProductOperators, parse_unary, MakeProduct)))
    /\ (p_pc # "idle" /\ p_tokens = OneMinusTwoMinusThree)
          => p_result = ParsedOk(Expression(
                Sum("Minus", Sum("Minus", NumberNode(1), NumberNode(2)), NumberNode(3))))
    /\ (p_pc # "idle" /\ p_tokens = OneSlashTwoSlashThree)
          => p_result = ParsedOk(Expression(
                Product("Slash", Product("Slash", NumberNode(1), NumberNode(2)),
                        NumberNode(3))))

C11_Witness ==
    /\ KindsOf(p_tokens) = <<"Number", "Slash", "Number", "Star", "Number", "Slash", "Number">>
    /\ p_result.kind = "Ok"
    /\ p_result.node.child.operator = "Slash"
    /\ p_result.node.child.left.operator = "Star"
    /\ p_result.node.child.left.left.operator = "Slash"
    /\ p_result.node.child.left.left.left.type = "Primary"

MakeSeries(op, l, r) == Series(l, r)
MakeEquality(op, l, r) == Equality(EqualityOperators[op], l, r)
MakeComparison(op, l, r) == Comparison(ComparisonOperators[op], l, r)

\* C12: equalities joined by `,`, comparisons joined by `==`/`!=` and sums
\* joined by `>`/`>=`/`<`/`<=` parse to the left-leaning tree, each node
\* with the operator of its position; 1,2,3 is Series(Series(1,2),3),
\* 1==2==3 is Equality(Equal, Equality(Equal,1,2), 3) and 1<2<3 is
\* Comparison(Less, Comparison(Less,1,2), 3).
C12_LowerRulesLeftAssociative ==
    /\ (p_pc # "idle" /\ IsChain(p_tokens, {"Comma"}, parse_equality))
          => p_result = ParsedOk(Expression(
                LeftFold(p_tokens, {"Comma"}, parse_equality, MakeSeries)))
    /\ (p_pc # "idle" /\ IsChain(p_tokens, DOMAIN EqualityOperators, parse_comparison))
          => p_result = ParsedOk(Expression(
                LeftFold(p_tokens, DOMAIN EqualityOperators, parse_comparison,
                         MakeEquality)))
    /\ (p_pc # "idle" /\ IsChain(p_tokens, DOMAIN ComparisonOperators, parse_sum))
          => p_result = ParsedOk(Expression(
                LeftFold(p_tokens, DOMAIN ComparisonOperators, parse_sum,
                         MakeComparison)))
    /\ (p_pc # "idle" /\ p_tokens = OneCommaTwoCommaThree)
          => p_result = ParsedOk(Expression(
                Series(Series(NumberNode(1), NumberNode(2)), NumberNode(3))))
    /\ (p_pc # "idle" /\ p_tokens = OneEqualsTwoEqualsThree)
          => p_result = ParsedOk(Expression(
                Equality("Equal", Equality("Equal", NumberNode(1), NumberNode(2)),
                         NumberNode(3))))
    /\ (p_pc # "idle" /\ p_tokens = OneLessTwoLessThree)
          => p_result = ParsedOk(Expression(
                Comparison("Less", Comparison("Less", NumberNode(1), NumberNode(2)),
                           NumberNode(3))))

C12_Witness ==
    /\ KindsOf(p_tokens) = <<"Number", "Less", "Number", "BangEqual", "Number",
                             "Greater", "Number", "EqualEqual", "Number">>
    /\ p_result.kind = "Ok"
    /\ p_result.node.child.operator = "Equal"
    /\ p_result.node.child.left.operator = "NotEqual"
    /\ p_result.node.child.left.left.operator = "Less"
    /\ p_result.node.child.left.right.operator = "Greater"

-----------------------------------------------------------------------------
(* Unary *)

\* the node of a one-token literal
LiteralNode(tok) ==
    CASE tok.token_type = "Nil" -> Primary(LiteralNil)
      [] tok.token_type = "True" -> Primary(LiteralTrue)
      [] tok.token_type = "False" -> Primary(LiteralFalse)
      [] tok.token_type = "String" -> Primary(LiteralString(tok.lexeme))
      [] tok.token_type = "Number" -> Primary(LiteralNumber(parse_f64(tok.lexeme).value))

IsLiteral(tok) ==
    \/ tok.token_type \in {"Nil", "True", "False", "String"}
    \/ tok.token_type = "Number" /\ parse_f64(tok.lexeme).ok

\* one or more prefix operators, then one literal, and nothing else
IsPrefixRun(ts) ==
    /\ Len(ts) >= 2
    /\ \A i \in 1..(Len(ts) - 1) : ts[i].token_type \in DOMAIN UnaryOperators
    /\ IsLiteral(ts[Len(ts)])

RECURSIVE NestUnary(_, _)
\* the prefix operators from place i on, nested in source order around the
\* literal
NestUnary(ts, i) ==
    IF i = Len(ts) THEN LiteralNode(ts[i])
    ELSE Unary(UnaryOperators[ts[i].token_type], NestUnary(ts, i + 1))

RECURSIVE UnaryOperandsTight(_)
\* every Unary node has a Unary, a Primary or a group as its operand
UnaryOperandsTight(n) ==
    CASE n.type = "Expression" -> UnaryOperandsTight(n.child)
      [] n.type = "Unary" -> /\ n.operand.type \in {"Unary", "Primary", "Expression"}
                             /\ UnaryOperandsTight(n.operand)
      [] n.type = "Primary" -> TRUE
      [] OTHER -> UnaryOperandsTight(n.left) /\ UnaryOperandsTight(n.right)

MinusOneTimesTwo ==
    <<Token("Minus", <<"-">>, 1), Num(<<"1">>), Token("Star", <<"*">>, 1), Num(<<"2">>)>>

\* C13: k prefix operators before a literal parse to k nested Unary nodes in
\* source order, the literal innermost; a Unary node's operand is never a
\* binary node; !!true is Unary(Bang, Unary(Bang, Primary(True))) and -1*2
\* is Product(Star, Unary(Minus, 1), 2).
C13_UnaryNestsAndBindsTightest ==
    /\ (p_pc # "idle" /\ IsPrefixRun(p_tokens))
          => p_result = ParsedOk(Expression(NestUnary(p_tokens, 1)))
    /\ p_result.kind = "Ok" => UnaryOperandsTight(p_result.node)
    /\ (p_pc # "idle" /\ p_tokens = OnLine1(<<"Bang", "Bang", "True">>))
          => p_result = ParsedOk(Expression(
                Unary("Bang", Unary("Bang", Primary(LiteralTrue)))))
    /\ (p_pc # "idle" /\ p_tokens = MinusOneTimesTwo)
          => p_result = ParsedOk(Expression(
                Product("Star", Unary("Minus", NumberNode(1)), NumberNode(2))))

C13_Witness ==
    /\ KindsOf(p_tokens) = <<"Bang", "Minus", "Bang", "Number">>
    /\ p_result.kind = "Ok"
    /\ p_result.node.child.operator = "Bang"
    /\ p_result.node.child.operand.operator = "Minus"
    /\ p_result.node.child.operand.operand.operator = "Bang"
    /\ p_result.node.child.operand.operand.operand.type = "Primary"

-----------------------------------------------------------------------------
(* Parse errors *)

\* the first k tokens are a whole expression and token k + 1 does not carry
\* it on
ExpressionThenToken(ts, k) ==
    /\ k < Len(ts)
    /\ ts[k + 1].token_type \notin BinaryKinds
    /\ parse(NewParser, SubSeq(ts, 1, k)).st = "ok"

\* C14: parse returns Ok only with the cursor at the number of tokens; when
\* a whole expression is followed by a token that does not carry it on,
\* parse returns an error with the line of that token, the first one left.
C14_FullParseConsumesEveryToken ==
    /\ p_result.kind = "Ok" => p_cursor = Len(p_tokens)
    /\ \A k \in 1..Len(p_tokens) :
          (p_pc # "idle" /\ ExpressionThenToken(p_tokens, k))
             => /\ p_result.kind = "Err"
                /\ p_result.error.line_number = p_tokens[k + 1].line_number
                /\ p_cursor = k

C14_Witness ==
    /\ KindsOf(p_tokens) = <<"Number", "Plus", "Number", "RightParen">>
    /\ p_result.kind = "Err"
    /\ p_result.error.line_number = 4
    /\ p_cursor = 3

RECURSIVE Reached(_, _)
\* the parser, having met no fault, reads token i where an operand starts:
\* the first token, or the token after a `(` or a prefix operator that was
\* read so, or the token after a literal read so and a binary operator
Reached(ts, i) ==
    \/ i = 1
    \/ /\ i >= 2
       /\ ts[i - 1].token_type \in {"LeftParen"} \cup DOMAIN UnaryOperators
       /\ Reached(ts, i - 1)
    \/ /\ i >= 3
       /\ ts[i - 1].token_type \in BinaryKinds
       /\ IsLiteral(ts[i - 2])
       /\ Reached(ts, i - 2)

\* token i is a `(` read where an operand starts, tokens i+1..k are a whole
\* expression, and what follows token k is not `)`
MissingCloseParen(ts, i, k) ==
    /\ ts[i].token_type = "LeftParen"
    /\ Reached(ts, i)
    /\ k = Len(ts) \/ ts[k + 1].token_type \notin BinaryKinds \cup {"RightParen"}
    /\ parse(NewParser, SubSeq(ts, i + 1, k)).st = "ok"

\* C15: when `(` is followed by a whole expression and then by the end of
\* the tokens or a token other than `)`, parse returns an error with the
\* line of the last token of that expression.
C15_MissingCloseParen ==
    \A i \in 1..Len(p_tokens) : \A k \in (i + 1)..Len(p_tokens) :
       (p_pc # "idle" /\ MissingCloseParen(p_tokens, i, k))
          => /\ p_result.kind = "Err"
             /\ p_result.error.line_number = p_tokens[k].line_number
             /\ p_cursor = k

C15_Witness ==
    /\ KindsOf(p_tokens) = <<"Minus", "LeftParen", "Number", "Number">>
    /\ p_result.kind = "Err"
    /\ p_result.error.line_number = 3

PrimaryStarts == {"Nil", "True", "False", "Number", "String", "LeftParen"}

\* C18: a token read where an operand starts that is neither the start of a
\* primary nor a prefix operator gives an error with that token's line and
\* lexeme, and the cursor stays at that token.
C18_UnexpectedTokenAtOperand ==
    \A i \in 1..Len(p_tokens) :
       (/\ p_pc # "idle"
        /\ Reached(p_tokens, i)
        /\ p_tokens[i].token_type \notin PrimaryStarts \cup DOMAIN UnaryOperators)
          => /\ p_result.kind = "Err"
             /\ p_result.error = Error(p_tokens[i].line_number,
                                       <<"Unexpected token", p_tokens[i].lexeme>>)
             /\ p_cursor = i - 1

C18_Witness ==
    /\ KindsOf(p_tokens) = <<"Number", "Plus", "Identifier">>
    /\ p_result.kind = "Err"
    /\ p_result.error = Error(3, <<"Unexpected token", <<"x">>>>)
    /\ p_cursor = 2

-----------------------------------------------------------------------------
(* Identifiers and reserved words *)

IsIdentifierStart(c) == is_alphabetic(c) \/ c = "_"
IsIdentifierPart(c) == is_alphanumeric(c) \/ c = "_"

\* the last place of the run of identifier characters that starts at i
RunEnd(w, i) ==
    CHOOSE j \in i..Len(w) :
        /\ \A k \in i..j : IsIdentifierPart(w[k])
        /\ j = Len(w) \/ ~IsIdentifierPart(w[j + 1])

RECURSIVE Runs(_, _)
\* the maximal runs of w from place i on: each starts at a letter or `_`
\* and goes on over letters, digits and `_`
Runs(w, i) ==
    IF i > Len(w) THEN <<>>
    ELSE IF IsIdentifierStart(w[i])
    THEN <<SubSeq(w, i, RunEnd(w, i))>> \o Runs(w, RunEnd(w, i) + 1)
    ELSE Runs(w, i + 1)

WordKinds == {"Identifier"} \cup {k.token_type : k \in ReservedWords}

IsWordToken(tok) == tok.token_type \in WordKinds

\* the kind and lexeme of each token
KindAndLexeme(toks) ==
    [i \in 1..Len(toks) |-> <<toks[i].token_type, toks[i].lexeme>>]

\* the token a run stands for: the reserved word's kind when the run is one
ClassifiedRuns(w) ==
    LET runs == Runs(w, 1)
    IN [i \in 1..Len(runs) |->
          <<IF IsReservedWord(runs[i])
            THEN (CHOOSE k \in ReservedWords : k.word = runs[i]).token_type
            ELSE "Identifier",
            runs[i]>>]

\* text with no string, no comment and no character outside the language
PlainText(w) == \A i \in 1..Len(w) : w[i] \notin {Quote, "/", "@"}

\* C16: a first scan of a text without strings, comments and unknown
\* characters succeeds, and its identifier and keyword tokens are one per
\* maximal run of identifier characters, in order, each with the run as its
\* lexeme and the reserved word's kind exactly when the run is one of the
\* 16 reserved words.
C16_KeywordClassification ==
    /\ Cardinality(ReservedWords) = 16
    /\ (ScanEnded /\ FirstCall /\ PlainText(source))
          => /\ result.kind = "Ok"
             /\ KindAndLexeme(SelectSeq(result.tokens, IsWordToken))
                   = ClassifiedRuns(source)

-----------------------------------------------------------------------------
(* Scan errors and string literals *)

\* C17: when a scan call has returned a ScanError, neither the value it
\* returned nor the Scanner's public token list holds a token.
C17_NoPartialTokensOnError ==
    pc = "err" => (result.tokens = <<>> /\ tokens = <<>>)

\* the places of the first `"` of w, when the text before it has no
\* comment and no unknown character
OpeningQuote(w) ==
    {q \in 1..Len(w) :
        /\ w[q] = Quote
        /\ \A i \in 1..(q - 1) : w[i] \notin {Quote, "/", "@"}}

\* the places of the first `"` or newline after place q
StringEnd(w, q) ==
    {r \in (q + 1)..Len(w) :
        /\ w[r] \in {Quote, NL}
        /\ \A i \in (q + 1)..(r - 1) : w[i] \notin {Quote, NL}}

LineOf(w, q) == 1 + NewlinesIn(SubSeq(w, 1, q - 1))

IsStringToken(tok) == tok.token_type = "String"

\* what a scan that has ended made of the string opened at q and ended at r
StringOutcome(w, q, r) ==
    IF w[r] = NL
    THEN /\ result.kind = "Err"
         /\ result.error.line_number = LineOf(w, q)
    ELSE /\ SelectSeq(tokens, IsStringToken) # <<>>
         /\ Head(SelectSeq(tokens, IsStringToken))
               = Token("String", SubSeq(w, q + 1, r - 1), LineOf(w, q))

\* the step taken with the cursor on the opening quote at q: an error at a
\* newline, else the String token and the cursor after the closing quote
StringStep(w, q, r) ==
    IF w[r] = NL
    THEN /\ pc' = "err"
         /\ result'.kind = "Err"
         /\ result'.error.line_number = line_number
    ELSE /\ pc' = "scanning"
         /\ tokens' = Append(tokens, Token("String", SubSeq(w, q + 1, r - 1), line_number))
         /\ cursor' = r

\* C19: on a first scan, a `"` followed by a newline before any other `"`
\* gives a ScanError with the line of the opening quote; a `"` closed first
\* gives one String token, its lexeme the characters strictly between the
\* quotes, and the scan goes on after the closing quote.
C19_StringLiteral ==
    /\ [](\A q \in OpeningQuote(source) : \A r \in StringEnd(source, q) :
             (ScanEnded /\ FirstCall) => StringOutcome(source, q, r))
    /\ [][\A q \in OpeningQuote(source) : \A r \in StringEnd(source, q) :
             (pc = "scanning" /\ FirstCall /\ cursor = q - 1)
                => StringStep(source, q, r)]_vars

-----------------------------------------------------------------------------
(* Lexemes *)

\* lex is the text of w from place i on
Matches(w, i, lex) ==
    /\ i + Len(lex) - 1 <= Len(w)
    /\ SubSeq(w, i, i + Len(lex) - 1) = lex

\* tok is the token of the lexeme that starts at place i of w: for an
\* identifier the run of identifier characters from i, for a number text
\* from i that begins with a digit and that no digit follows, for a string
\* the characters between the quote at i and the next quote
ExactLexeme(w, i, tok) ==
    CASE IsWordToken(tok) ->
            /\ IsIdentifierStart(w[i])
            /\ tok.lexeme = SubSeq(w, i, RunEnd(w, i))
      [] tok.token_type = "Number" ->
            /\ is_digit(w[i])
            /\ Matches(w, i, tok.lexeme)
            /\ \A k \in 1..Len(tok.lexeme) : tok.lexeme[k] \in Digits \cup {"."}
            /\ i + Len(tok.lexeme) <= Len(w) => ~is_digit(w[i + Len(tok.lexeme)])
      [] tok.token_type = "String" ->
            /\ w[i] = Quote
            /\ Matches(w, i + 1, tok.lexeme \o <<Quote>>)
            /\ \A k \in 1..Len(tok.lexeme) : tok.lexeme[k] # Quote
      [] OTHER -> TRUE

\* the text from place i on is a string literal that the input ends in
RunsToEnd(w, i) == w[i] = Quote /\ \A k \in (i + 1)..Len(w) : w[k] \notin {Quote, NL}

\* C20: on a first scan of any text, each step that emits an Identifier,
\* Number or String token gives it the exact characters matched from the
\* cursor on, and no step fails on the positions it slices the text by.
C20_LexemesAreExactText ==
    [][(pc = "scanning" /\ FirstCall /\ cursor < Len(source))
          => /\ Len(tokens') = Len(tokens) + 1
                   => ExactLexeme(source, cursor + 1, tokens'[Len(tokens')])
             /\ pc' = "panic" => RunsToEnd(source, cursor + 1)]_vars

-----------------------------------------------------------------------------
(* Parser instance and history *)

\* the value a parse call hands back, from the outcome of the rules
Returned(r) ==
    CASE r.st = "ok" -> [kind |-> "Ok", node |-> r.node, error |-> NoError]
      [] r.st = "err" -> [kind |-> "Err", node |-> NoNode, error |-> r.error]
      [] OTHER -> [kind |-> "Panic", node |-> NoNode, error |-> NoError]

\* C28: every parse call on one parser, whatever it parsed before and with
\* whatever outcome, returns what a newly constructed parser returns for
\* the same tokens, and the parser holds the tokens as they were given.
C28_ParseIgnoresHistory ==
    /\ [](p_pc # "idle" => p_result = Returned(parse(NewParser, p_tokens)))
    /\ [][p_tokens' # p_tokens
            => (p_tokens' \in TokenSeqs \/ p_tokens' = Parenthesized(p_tokens))]_vars

C28_Witness ==
    /\ p_calls = 2
    /\ KindsOf(p_prev.tokens) = <<"Number", "Number">>
    /\ p_prev.result.kind = "Err"
    /\ KindsOf(p_tokens) = <<"Number", "Plus", "Number">>
    /\ p_result.kind = "Ok"
    /\ p_cursor = 3

\* C25: a Number token read where an operand starts whose lexeme is not a
\* floating-point literal gives the error "failed to parse number" with
\* that token's line and no node, and the cursor stays at that token.
C25_DefensiveNumberCheck ==
    \A i \in 1..Len(p_tokens) :
       (/\ p_pc # "idle"
        /\ Reached(p_tokens, i)
        /\ p_tokens[i].token_type = "Number"
        /\ ~parse_f64(p_tokens[i].lexeme).ok)
          => /\ p_result = [kind |-> "Err", node |-> NoNode,
                            error |-> Error(p_tokens[i].line_number,
                                            <<"Failed to parse number",
                                              p_tokens[i].lexeme>>)]
             /\ p_cursor = i - 1

C25_Witness ==
    /\ KindsOf(p_tokens) = <<"Number", "Star", "Number", "Plus", "Number">>
    /\ p_tokens[3].lexeme = <<"1", ".", "2", ".", "3">>
    /\ p_result.kind = "Err"
    /\ p_result.error.line_number = 3
    /\ p_cursor = 2

-----------------------------------------------------------------------------
(* The tree written back as tokens *)

\* a token as the tree keeps it: its type, and its lexeme when a String
Kept(token_type, lexeme) ==
    [token_type |-> token_type,
     lexeme |-> IF token_type = "String" THEN lexeme ELSE <<>>]

\* the token type each operator of a node came from
OperatorToken(n) ==
    CASE n.type = "Equality" ->
            (IF n.operator = "Equal" THEN "EqualEqual" ELSE "BangEqual")
      [] OTHER -> n.operator

RECURSIVE WriteBack(_)
\* the tokens of a tree, in order: an Expression below the root as `(`
\* child `)`, a binary node as left, operator, right, a Unary node as
\* operator, operand, a Primary as its literal
WriteBack(n) ==
    CASE n.type = "Expression" ->
            <<Kept("LeftParen", <<>>)>> \o WriteBack(n.child)
            \o <<Kept("RightParen", <<>>)>>
      [] n.type = "Series" ->
            WriteBack(n.left) \o <<Kept("Comma", <<>>)>> \o WriteBack(n.right)
      [] n.type = "Unary" -> <<Kept(n.operator, <<>>)>> \o WriteBack(n.operand)
      [] n.type = "Primary" ->
            <<Kept(n.literal.type,
                   IF n.literal.type = "String" THEN n.literal.value ELSE <<>>)>>
      [] OTHER ->
            WriteBack(n.left) \o <<Kept(OperatorToken(n), <<>>)>> \o WriteBack(n.right)

KeptTokens(ts) == [i \in 1..Len(ts) |-> Kept(ts[i].token_type, ts[i].lexeme)]

\* every `)` closes a `(` before it and every `(` is closed
Balanced(ts) ==
    /\ \A i \in 1..(Len(ts) + 1) : Depth(ts, i) >= 0
    /\ Depth(ts, Len(ts) + 1) = 0

GrammarTokens ==
    PrimaryStarts \cup {"RightParen"} \cup BinaryKinds \cup DOMAIN UnaryOperators

\* C30: when parse returns a tree, the tree written back is exactly the
\* token types of the sequence in order, String lexemes unchanged; the
\* sequence has balanced parentheses and only tokens of the grammar.
C30_TreeLosesNoToken ==
    p_result.kind = "Ok"
       => /\ p_result.node.type = "Expression"
          /\ WriteBack(p_result.node.child) = KeptTokens(p_tokens)
          /\ Balanced(p_tokens)
          /\ \A i \in 1..Len(p_tokens) : p_tokens[i].token_type \in GrammarTokens

C30_Witness ==
    /\ KindsOf(p_tokens) = <<"LeftParen", "Number", "Comma", "String", "RightParen">>
    /\ p_result.kind = "Ok"
    /\ WriteBack(p_result.node.child)[4] = Kept("String", <<"s">>)

-----------------------------------------------------------------------------
(* Comments, unknown characters, numbers, progress *)

\* the place of the first newline at or after place i, or one past the end
LineEnd(w, i) ==
    IF \E j \in i..Len(w) : w[j] = NL
    THEN CHOOSE j \in i..Len(w) : w[j] = NL /\ \A k \in i..(j - 1) : w[k] # NL
    ELSE Len(w) + 1

RECURSIVE SlashLines(_, _, _)
\* the lines of the `/` of w from place i on that stand outside comments,
\* a comment counting as one line whether a newline ends it or the input
SlashLines(w, i, line) ==
    IF i > Len(w) THEN <<>>
    ELSE IF w[i] = "/" /\ i < Len(w) /\ w[i + 1] = "/"
    THEN SlashLines(w, LineEnd(w, i) + 1, line + 1)
    ELSE IF w[i] = "/" THEN <<line>> \o SlashLines(w, i + 1, line)
    ELSE IF w[i] = NL THEN SlashLines(w, i + 1, line + 1)
    ELSE SlashLines(w, i + 1, line)

IsSlashToken(tok) == tok.token_type = "Slash"

LinesOf(toks) == [i \in 1..Len(toks) |-> toks[i].line_number]

\* text with no string and no character outside the language
NoStrings(w) == \A i \in 1..Len(w) : w[i] \notin {Quote, "@"}

\* the step taken with the cursor on a `/`
SlashStep ==
    IF cursor + 1 < Len(source) /\ At(source, cursor + 1) = "/"
    THEN /\ tokens' = tokens
         /\ line_number' = line_number + 1
         /\ cursor' = LineEnd(source, cursor + 1)
         /\ pc' = "scanning"
    ELSE /\ tokens' = Append(tokens, Token("Slash", <<"/">>, line_number))
         /\ line_number' = line_number
         /\ cursor' = cursor + 1
         /\ pc' = "scanning"

\* C23: on a first scan of a text without strings, the Slash tokens are
\* the `/` outside comments and not followed by `/`, each on its line with
\* every comment counted as one line; the step on `//` emits nothing, adds
\* one to the line and leaves the cursor after the newline or at the end,
\* the step on any other `/` emits Slash and moves one character.
C23_CommentsAndSlash ==
    /\ []((pc = "ok" /\ FirstCall /\ NoStrings(source))
            => LinesOf(SelectSeq(result.tokens, IsSlashToken)) = SlashLines(source, 1, 1))
    /\ [][(pc = "scanning" /\ FirstCall /\ cursor < Len(source)
           /\ At(source, cursor) = "/")
            => SlashStep]_vars

\* the places of the first character outside the language, when no string
\* and no comment comes before it
FirstUnknown(w) ==
    {u \in 1..Len(w) :
        /\ w[u] = "@"
        /\ \A i \in 1..(u - 1) : w[i] \notin {Quote, "/", "@"}}

\* C24: a first scan of a text whose first unknown character comes before
\* any string or comment returns an error with the line of that character
\* and a message that names it, the cursor still at that character.
C24_UnexpectedCharacter ==
    \A u \in FirstUnknown(source) :
       (ScanEnded /\ FirstCall)
          => /\ result = Err(Error(LineOf(source, u), <<"Unexpected character", "@">>))
             /\ cursor = u - 1

\* C26: every Number token of a first scan that succeeded has a lexeme of
\* digits and at most one `.`, a digit first, that parses as a
\* floating-point literal.
C26_NumberLexemesParse ==
    (pc = "ok" /\ FirstCall)
       => \A i \in 1..Len(result.tokens) :
             result.tokens[i].token_type = "Number"
                => LET lex == result.tokens[i].lexeme
                   IN /\ Len(lex) >= 1
                      /\ \A k \in 1..Len(lex) : lex[k] \in Digits \cup {"."}
                      /\ Cardinality({k \in 1..Len(lex) : lex[k] = "."}) <= 1
                      /\ lex[1] \in Digits
                      /\ parse_f64(lex).ok

\* C29: on a first scan, every iteration of the main loop returns an error
\* or leaves the cursor greater than it found it, and there are never more
\* tokens than characters consumed.
C29_ScanProgress ==
    /\ [](FirstCall => (Len(tokens) <= cursor /\ Len(tokens) <= Len(source)))
    /\ [][(pc = "scanning" /\ FirstCall /\ cursor < Len(source))
            => (pc' = "err" \/ cursor' > cursor)]_vars

-----------------------------------------------------------------------------
(* The driver *)

\* C21: once scan has returned an error for a source text, Interpreter::run
\* has reported the error and has not called the parser on the tokens of
\* that text.
C21_ScanErrorIsFatal ==
    d_run.scan = "Err"
       => /\ had_error
          /\ d_stderr # <<>>
          /\ d_stderr[Len(d_stderr)] = report(d_run.error.line_number, d_run.error.message)
          /\ ~d_run.parsed

\* C22: a step of run_prompt's loop that reads a line and does not panic
\* goes back to the prompt, whether or not the line produced a reported
\* error; the loop ends only on end of input or on an I/O error.
C22_PromptContinuesAfterError ==
    [][d_pc = "prompt"
          => \/ d_pc' = "prompt"
             \/ d_pc' = "panic"
             \/ d_pc' = "failed"
             \/ d_pc' = "done" /\ d_read' = "Eof"]_vars

RECURSIVE HasProduct(_)
\* the tree has a Product node
HasProduct(n) ==
    CASE n.type = "Expression" -> HasProduct(n.child)
      [] n.type \in {"Equality", "Comparison", "Sum"} -> HasProduct(n.left) \/ HasProduct(n.right)
      [] n.type = "Product" -> TRUE
      [] n.type = "Unary" -> HasProduct(n.operand)
      [] n.type = "Primary" -> n.literal.type = "Grouping" /\ HasProduct(n.literal.node)
      [] OTHER -> FALSE

\* C27: when the driver's parser returns a tree, number - number is a Sum
\* with operator Minus, number / number is a Product with operator Slash,
\* and the tree of tokens without `*` and `/` has no Product node.
C27_DriverOperatorMapping ==
    (d_run.parsed /\ d_run.node.kind = "Ok")
       => LET ts == d_run.tokens
              binary == Len(ts) = 3 /\ ts[1].token_type = "Number" /\ ts[3].token_type = "Number"
          IN /\ (binary /\ ts[2].token_type = "Minus")
                   => d_run.node.node = Expression(Sum("Minus", LiteralNode(ts[1]), LiteralNode(ts[3])))
             /\ (binary /\ ts[2].token_type = "Slash")
                   => d_run.node.node = Expression(Product("Slash", LiteralNode(ts[1]), LiteralNode(ts[3])))
             /\ (\A i \in 1..Len(ts) : ts[i].token_type \notin {"Star", "Slash"})
                   => ~HasProduct(d_run.node.node)
====
